---- MODULE Spec2Model ----
(***************************************************************************)
(* Model of the sigoREST request pipeline: the error classifier, the       *)
(* EnhancedCircuitBreaker state machine, RetryWithBackoff and the chat     *)
(* handler that binds them (sigoengine/engine.go, sigoREST/main.go).       *)
(*                                                                         *)
(* Time is a discrete clock `now`; every critical section of the breaker   *)
(* reads one clock value.  Durations of the retry engine are counted in    *)
(* milliseconds.                                                           *)
(***************************************************************************)
EXTENDS Integers, Sequences, FiniteSets, TLC

(***************************************************************************)
(* Bounds of the model.                                                    *)
(***************************************************************************)
NumCallers == 2
MaxTime == 3
MaxThreshold == 2
MaxWindow == 2
MaxCooldown == 2
MaxHalfOpen == 2
MaxFailures == 3
MaxRetriesTop == 2
NumClients == 1
MaxChatTicks == 2
MaxStored == 22
MaxMsgs == 2
MaxServed == 2
MaxMapTicks == 1
MaxLkCalls == 2
MaxRaceServed == 2
MaxLegacyTime == 6

(***************************************************************************)
(* Error codes (engine.go, const block "Fehlercodes").                     *)
(***************************************************************************)
ErrConfigNotFound == "CONFIG_NOT_FOUND"
ErrAPIKeyMissing == "API_KEY_MISSING"
ErrAPIFailed == "API_FAILED"
ErrCircuitOpen == "CIRCUIT_OPEN"
ErrUnexpectedFormat == "UNEXPECTED_FORMAT"
ErrRateLimit == "RATE_LIMIT"
ErrAuthFailed == "AUTH_FAILED"
ErrTimeout == "TIMEOUT"
ErrServerError == "SERVER_ERROR"
ErrClientError == "CLIENT_ERROR"

(***************************************************************************)
(* Error values.  form = "nil" is the nil error, "api" an *APIError,       *)
(* "sigo" a *SigoError (kind is its Code) and "plain" any other error      *)
(* (msg is its text).  status is the HTTP status of an APIError and        *)
(* retryAfter its RetryAfter, in time units.  cause is the text of the     *)
(* wrapped error (the Err field), "" when there is none.                   *)
(***************************************************************************)
NoErr == [form |-> "nil", kind |-> "", status |-> 0, retryAfter |-> 0, msg |-> "", cause |-> ""]

APIError(kind, status, retryAfter, msg) ==
    [form |-> "api", kind |-> kind, status |-> status, retryAfter |-> retryAfter, msg |-> msg,
     cause |-> ""]

NewError(code, msg) ==
    [form |-> "sigo", kind |-> code, status |-> 0, retryAfter |-> 0, msg |-> msg, cause |-> ""]

\* NewError(code, message, err, fields) with a wrapped error
NewErrorWrap(code, msg, cause) ==
    [NewError(code, msg) EXCEPT !.cause = cause]

PlainError(msg) ==
    [form |-> "plain", kind |-> "", status |-> 0, retryAfter |-> 0, msg |-> msg, cause |-> ""]

\* strings.Contains(err.Error(), "timeout") || strings.Contains(err.Error(), "deadline exceeded")
\* over the error texts of the model
ContainsTimeoutText(msg) ==
    msg \in {"dial tcp: i/o timeout", "context deadline exceeded"}

\* variant: client errors count as retryable
IsRetryable_ClientError(e) ==
    e.kind \in {ErrRateLimit, ErrTimeout, ErrServerError, ErrClientError}

\* variant: any error with a 5xx status is retried as well
IsRetryable_ByStatus(e) ==
    e.kind \in {ErrRateLimit, ErrTimeout, ErrServerError} \/ e.status >= 500

IsRetryable(e) ==
    IF e.kind \in {ErrRateLimit, ErrTimeout, ErrServerError} THEN TRUE
    ELSE IF e.kind \in {ErrAuthFailed, ErrClientError} THEN FALSE
    ELSE FALSE

ClassifyError(err) ==
    IF err.form = "api" THEN err
    ELSE IF err.form = "sigo"
    THEN [APIError(err.kind, 0, 0, err.msg) EXCEPT !.cause = err.cause]
    ELSE IF ContainsTimeoutText(err.msg)
    THEN [APIError(ErrTimeout, 0, 0, "Request timeout") EXCEPT !.cause = err.msg]
    ELSE [APIError(ErrAPIFailed, 0, 0, err.msg) EXCEPT !.cause = err.msg]

\* the classified kind of e is none of the three retryable kinds
NonRetryableKind(e) == ClassifyError(e).kind \notin {ErrRateLimit, ErrTimeout, ErrServerError}

(***************************************************************************)
(* EnhancedCircuitBreaker.                                                 *)
(***************************************************************************)
CBStateClosed == "closed"
CBStateOpen == "open"
CBStateHalfOpen == "half_open"

CircuitBreakerConfig(threshold, window, cooldown, halfOpenMax) ==
    [Threshold |-> threshold, Window |-> window, Cooldown |-> cooldown, HalfOpenMax |-> halfOpenMax]

NewEnhancedCircuitBreaker(t) ==
    [state |-> CBStateClosed, failures |-> <<>>, halfOpenAttempts |-> 0, lastStateChange |-> t]

\* keeps the timestamps t with t.After(now - Window)
cleanupOldFailures(b, c, t) ==
    [b EXCEPT !.failures = SelectSeq(b.failures, LAMBDA x : x > t - c.Window)]

ErrOpenRejected == NewError(ErrCircuitOpen, "Circuit breaker open")
ErrHalfOpenRejected == NewError(ErrCircuitOpen, "Circuit breaker half-open, max attempts reached")

\* variant: the cooldown ends one time unit early
cooldownElapsed_Early(b, c, t) ==
    t - b.lastStateChange >= c.Cooldown - 1

\* time.Since(cb.lastStateChange) >= cb.config.Cooldown
cooldownElapsed(b, c, t) ==
    t - b.lastStateChange >= c.Cooldown

\* variant: the half-open limit is compared with > instead of >=
halfOpenLimitReached_Strict(b, c) ==
    b.state = CBStateHalfOpen /\ b.halfOpenAttempts > c.HalfOpenMax

\* cb.state == CBStateHalfOpen && cb.halfOpenAttempts >= cb.config.HalfOpenMax
halfOpenLimitReached(b, c) ==
    b.state = CBStateHalfOpen /\ b.halfOpenAttempts >= c.HalfOpenMax

\* First critical section of Do: the admission decision.  The result holds
\* the breaker after the section and the error returned by Do (NoErr when
\* the call is admitted and fn is going to run).
DoAdmit(b, c, t) ==
    LET b1 == IF b.state = CBStateOpen /\ cooldownElapsed(b, c, t)
              THEN [b EXCEPT !.state = CBStateHalfOpen,
                             !.halfOpenAttempts = 0,
                             !.lastStateChange = t]
              ELSE b
    IN  IF b.state = CBStateOpen /\ ~cooldownElapsed(b, c, t)
        THEN [cb |-> b, err |-> ErrOpenRejected]
        ELSE IF halfOpenLimitReached(b1, c)
        THEN [cb |-> b1, err |-> ErrHalfOpenRejected]
        ELSE LET b2 == IF b1.state = CBStateHalfOpen
                       THEN [b1 EXCEPT !.halfOpenAttempts = @ + 1]
                       ELSE b1
             IN  [cb |-> cleanupOldFailures(b2, c, t), err |-> NoErr]

\* variant: the threshold is compared with > instead of >=
recordFailure_StrictThreshold(b, c, t) ==
    LET b1 == [b EXCEPT !.failures = Append(@, t)]
    IN  IF Len(b1.failures) > c.Threshold
        THEN IF b1.state # CBStateOpen
             THEN [b1 EXCEPT !.state = CBStateOpen, !.lastStateChange = t]
             ELSE b1
        ELSE IF b1.state = CBStateHalfOpen
        THEN [b1 EXCEPT !.state = CBStateOpen, !.lastStateChange = t]
        ELSE b1

\* variant: any retryable failure opens the circuit, whatever the count
recordFailure_OpenOnAny(b, c, t) ==
    LET b1 == [b EXCEPT !.failures = Append(@, t)]
    IN  IF b1.state # CBStateOpen
        THEN [b1 EXCEPT !.state = CBStateOpen, !.lastStateChange = t]
        ELSE b1

\* Do after fn returned a retryable error: record the failure, open the
\* circuit at the threshold or from half-open
recordFailure(b, c, t) ==
    LET b1 == [b EXCEPT !.failures = Append(@, t)]
    IN  IF Len(b1.failures) >= c.Threshold
        THEN IF b1.state # CBStateOpen
             THEN [b1 EXCEPT !.state = CBStateOpen, !.lastStateChange = t]
             ELSE b1
        ELSE IF b1.state = CBStateHalfOpen
        THEN [b1 EXCEPT !.state = CBStateOpen, !.lastStateChange = t]
        ELSE b1

\* variant: recovery from half-open keeps the recorded failures
recordSuccess_KeepFailures(b, c, t) ==
    IF b.state = CBStateHalfOpen
    THEN [b EXCEPT !.state = CBStateClosed, !.lastStateChange = t]
    ELSE IF b.state = CBStateClosed
    THEN cleanupOldFailures(b, c, t)
    ELSE b

\* Do after fn returned nil
recordSuccess(b, c, t) ==
    IF b.state = CBStateHalfOpen
    THEN [b EXCEPT !.state = CBStateClosed, !.failures = <<>>, !.lastStateChange = t]
    ELSE IF b.state = CBStateClosed
    THEN cleanupOldFailures(b, c, t)
    ELSE b

\* variant: Do hands back the classified error
DoReturn_Classified(err) ==
    IF err = NoErr THEN NoErr ELSE ClassifyError(err)

\* return err: what Do returns after fn returned err
DoReturn(err) ==
    err

\* Second critical section of Do: bookkeeping after fn returned err.
DoComplete(b, c, t, err) ==
    IF err # NoErr
    THEN IF IsRetryable(ClassifyError(err))
         THEN recordFailure(b, c, t)
         ELSE b
    ELSE recordSuccess(b, c, t)

(***************************************************************************)
(* RetryWithBackoff.  A RetryConfig holds MaxRetries, InitialBackoff and   *)
(* MaxBackoff (ms) and BackoffFactor in tenths (20 is the factor 2.0).     *)
(* The state of one invocation is a record: pc is "loop" (at the loop      *)
(* head), "infn" (fn is executing), "wait" (in the select) or "done";      *)
(* result is the value returned.                                           *)
(***************************************************************************)
RetryConfig(maxRetries, initialBackoff, maxBackoff, factor10) ==
    [MaxRetries |-> maxRetries, InitialBackoff |-> initialBackoff,
     MaxBackoff |-> maxBackoff, BackoffFactor10 |-> factor10]

DefaultRetryConfig == RetryConfig(3, 500, 5000, 20)

minDuration(a, b) == IF a < b THEN a ELSE b

\* minDuration(time.Duration(float64(backoff)*config.BackoffFactor), config.MaxBackoff)
nextBackoff(backoff, rc) ==
    minDuration((backoff * rc.BackoffFactor10) \div 10, rc.MaxBackoff)

\* variant: the last attempt is recognised one iteration late
isLastAttempt_Late(attempt, rc) ==
    attempt = rc.MaxRetries + 1

\* attempt == config.MaxRetries
isLastAttempt(attempt, rc) ==
    attempt = rc.MaxRetries

\* the wait chosen after a retryable failure
sleepDuration(apiErr, backoff) ==
    IF apiErr.kind = ErrRateLimit /\ apiErr.retryAfter > 0
    THEN apiErr.retryAfter
    ELSE backoff

\* variant: circuit-open rejections are retried
retryAllowed_CircuitOpen(apiErr) ==
    IsRetryable(apiErr) \/ apiErr.kind = ErrCircuitOpen

\* apiErr.IsRetryable() as the retry loop consults it
retryAllowed(apiErr) ==
    IsRetryable(apiErr)

ErrRetryCancelled == NewError(ErrTimeout, "Context cancelled during retry backoff")

RetryStart(rc) ==
    [pc |-> "loop", attempt |-> 0, backoff |-> rc.InitialBackoff,
     sleep |-> 0, err |-> NoErr, result |-> NoErr]

\* loop head: attempt <= config.MaxRetries, else the final return nil
RetryLoop(r, rc) ==
    IF r.attempt <= rc.MaxRetries
    THEN [r EXCEPT !.pc = "infn"]
    ELSE [r EXCEPT !.pc = "done", !.result = NoErr]

\* fn returned err: from `if err == nil` down to the select
RetryAfterFn(r, rc, err) ==
    IF err = NoErr
    THEN [r EXCEPT !.pc = "done", !.result = NoErr, !.err = NoErr]
    ELSE IF isLastAttempt(r.attempt, rc)
    THEN [r EXCEPT !.pc = "done", !.result = err, !.err = err]
    ELSE IF ~retryAllowed(ClassifyError(err))
    THEN [r EXCEPT !.pc = "done", !.result = err, !.err = err]
    ELSE [r EXCEPT !.pc = "wait", !.err = err,
                   !.sleep = sleepDuration(ClassifyError(err), r.backoff)]

\* variant: the local schedule stands still while a Retry-After hint is used
RetryAfterWait_HoldOnHint(r, rc) ==
    [r EXCEPT !.pc = "loop",
              !.backoff = IF r.sleep = r.backoff THEN nextBackoff(r.backoff, rc) ELSE r.backoff,
              !.attempt = @ + 1]

\* variant: the select has no timer case, the wait ends by ctx.Done() only
RetryAfterWait_NoTimer(r, rc) ==
    r

\* case <-time.After(sleepDuration), the backoff update and attempt++
RetryAfterWait(r, rc) ==
    [r EXCEPT !.pc = "loop", !.backoff = nextBackoff(r.backoff, rc), !.attempt = @ + 1]

\* variant: the error of the last attempt is returned on cancellation
RetryCancelled_LastError(r) ==
    [r EXCEPT !.pc = "done", !.result = r.err]

\* case <-ctx.Done()
RetryCancelled(r) ==
    [r EXCEPT !.pc = "done", !.result = ErrRetryCancelled]

(***************************************************************************)
(* Upstream call.  A reply of the upstream is a record: kind "transport"   *)
(* (client.Do failed) or "http" with a status, the Retry-After header in   *)
(* seconds (0: no header) and the shape of the body ("openai",             *)
(* "anthropic", "error" or "other"); for kind "transport" body is the text *)
(* of the error client.Do returned.                                        *)
(***************************************************************************)
Reply(kind, status, retryAfterSec, body) ==
    [kind |-> kind, status |-> status, retryAfterSec |-> retryAfterSec, body |-> body]

\* variant: no case for 408 and 504
classifyHTTPError_NoTimeoutCase(statusCode, message) ==
    IF statusCode = 429 THEN APIError(ErrRateLimit, statusCode, 0, message)
    ELSE IF statusCode = 401 \/ statusCode = 403 THEN APIError(ErrAuthFailed, statusCode, 0, message)
    ELSE IF statusCode >= 500 THEN APIError(ErrServerError, statusCode, 0, message)
    ELSE IF statusCode >= 400 THEN APIError(ErrClientError, statusCode, 0, message)
    ELSE APIError(ErrAPIFailed, statusCode, 0, message)

classifyHTTPError(statusCode, message) ==
    IF statusCode = 429 THEN APIError(ErrRateLimit, statusCode, 0, message)
    ELSE IF statusCode = 401 \/ statusCode = 403 THEN APIError(ErrAuthFailed, statusCode, 0, message)
    ELSE IF statusCode = 408 \/ statusCode = 504 THEN APIError(ErrTimeout, statusCode, 0, message)
    ELSE IF statusCode >= 500 THEN APIError(ErrServerError, statusCode, 0, message)
    ELSE IF statusCode >= 400 THEN APIError(ErrClientError, statusCode, 0, message)
    ELSE APIError(ErrAPIFailed, statusCode, 0, message)

\* the text and the error CallAPI returns for a provider type and a reply
CallAPI(cfgType, reply) ==
    IF reply.kind = "transport"
    THEN [text |-> "", err |-> NewErrorWrap(ErrAPIFailed, "HTTP request failed", reply.body)]
    ELSE IF reply.status # 200
    THEN [text |-> "",
          err |-> [classifyHTTPError(reply.status, reply.body)
                     EXCEPT !.retryAfter = reply.retryAfterSec * 1000]]
    ELSE IF reply.body = "error"
    THEN [text |-> "", err |-> NewError(ErrAPIFailed, "error message")]
    ELSE IF cfgType = "anthropic" /\ reply.body = "anthropic"
    THEN [text |-> "text", err |-> NoErr]
    ELSE IF reply.body = "openai"
    THEN [text |-> "text", err |-> NoErr]
    ELSE [text |-> "", err |-> NewError(ErrUnexpectedFormat, "Unexpected response format")]

(***************************************************************************)
(* handleChatCompletions: the mapping of the final error to the response.  *)
(***************************************************************************)
Response(status, type, retryAfterSec) ==
    [status |-> status, type |-> type, retryAfterSec |-> retryAfterSec]

NoResponse == Response(0, "", 0)

\* variant: the switch has no case for CIRCUIT_OPEN
errorResponse_NoCircuitCase(apiErr) ==
    IF apiErr.kind = ErrRateLimit
    THEN Response(429, "rate_limit", IF apiErr.retryAfter > 0 THEN apiErr.retryAfter \div 1000 ELSE 0)
    ELSE IF apiErr.kind = ErrAuthFailed THEN Response(401, "auth_failed", 0)
    ELSE IF apiErr.kind = ErrTimeout THEN Response(504, "timeout", 0)
    ELSE IF apiErr.kind = ErrServerError THEN Response(503, "server_error", 0)
    ELSE IF apiErr.kind = ErrClientError THEN Response(400, "client_error", 0)
    ELSE Response(502, "api_error", 0)

\* variant: the Retry-After header carries the duration in milliseconds
errorResponse_RetryAfterMillis(apiErr) ==
    IF apiErr.kind = ErrRateLimit
    THEN Response(429, "rate_limit", IF apiErr.retryAfter > 0 THEN apiErr.retryAfter ELSE 0)
    ELSE IF apiErr.kind = ErrAuthFailed THEN Response(401, "auth_failed", 0)
    ELSE IF apiErr.kind = ErrTimeout THEN Response(504, "timeout", 0)
    ELSE IF apiErr.kind = ErrServerError THEN Response(503, "server_error", 0)
    ELSE IF apiErr.kind = ErrClientError THEN Response(400, "client_error", 0)
    ELSE IF apiErr.kind = ErrCircuitOpen THEN Response(503, "circuit_open", 0)
    ELSE Response(502, "api_error", 0)

errorResponse(apiErr) ==
    IF apiErr.kind = ErrRateLimit
    THEN Response(429, "rate_limit", IF apiErr.retryAfter > 0 THEN apiErr.retryAfter \div 1000 ELSE 0)
    ELSE IF apiErr.kind = ErrAuthFailed THEN Response(401, "auth_failed", 0)
    ELSE IF apiErr.kind = ErrTimeout THEN Response(504, "timeout", 0)
    ELSE IF apiErr.kind = ErrServerError THEN Response(503, "server_error", 0)
    ELSE IF apiErr.kind = ErrClientError THEN Response(400, "client_error", 0)
    ELSE IF apiErr.kind = ErrCircuitOpen THEN Response(503, "circuit_open", 0)
    ELSE Response(502, "api_error", 0)

\* the breaker configuration the handler installs
ChatCBConfig == CircuitBreakerConfig(5, 60000, 10000, 3)

\* retryConfig := DefaultRetryConfig(); retryConfig.MaxRetries = req.Retries
chatRetryConfig(retries) == [DefaultRetryConfig EXCEPT !.MaxRetries = retries]

\* if req.Retries == 0 { req.Retries = 3 }
defaultRetries(retries) == IF retries = 0 THEN 3 ELSE retries

breakerKey_Shared(model) == "m1"

\* the key of Server.breakers a request uses: s.breakers[req.Model]
breakerKey(model) ==
    model

(***************************************************************************)
(* State.                                                                  *)
(*   now       the clock                                                   *)
(*   cfg, cb   one breaker and its configuration                           *)
(*   pc, ret   for every concurrent caller of cb.Do: where it is ("idle",  *)
(*             "running" fn between the two critical sections, "done")     *)
(*             and what Do returned                                        *)
(*   hoAdmits  history: calls admitted since the breaker last entered      *)
(*             HalfOpen                                                    *)
(*   closedFails history: retryable failures recorded since the breaker    *)
(*             last became Closed (0 while it is not Closed)               *)
(***************************************************************************)
VARIABLES now, cfg, cb, pc, ret, hoAdmits, closedFails

(***************************************************************************)
(*   rcfg, rt  one invocation of RetryWithBackoff and its configuration    *)
(*   ctxDone   whether the invocation's context is cancelled               *)
(*   outs      history: what the invocations of fn returned, in order      *)
(*   waits     history: the waits started, each with the duration chosen,  *)
(*             the error that caused it and the local backoff at the time  *)
(***************************************************************************)
VARIABLES rcfg, rt, ctxDone, outs, waits

(***************************************************************************)
(*   breakers  Server.breakers: the breaker of every model token, or       *)
(*             NoBreaker while none is installed                           *)
(*   chat      for every client connection the request being handled:      *)
(*             pc is "idle", "breaker" (before the breaker lookup),        *)
(*             "retry" (inside RetryWithBackoff, see rt), "upstream"       *)
(*             (CallAPI in flight) or "responded"; wakeAt is the end of    *)
(*             the current wait, aborted the state of the request          *)
(*             context; history: rejected (the breaker rejected a call of  *)
(*             this request)                                               *)
(*   flog      history: per model token the times of the retryable         *)
(*             upstream failures since its breaker last became Closed      *)
(*   ticks     number of clock steps taken                                 *)
(***************************************************************************)
VARIABLES breakers, chat, flog, ticks

(***************************************************************************)
(*   up        one chat request followed through CallAPI, breaker.Do,      *)
(*             RetryWithBackoff and the error mapping of the handler: pc   *)
(*             is "idle", "retry", "upstream" or "responded"; history:     *)
(*             reply (the last answer of the upstream), callErr (what      *)
(*             CallAPI returned last), doErr (what breaker.Do returned     *)
(*             last), origin (where the last error of the retry loop came  *)
(*             from: "call", "breaker" or "cancel"); resp is the response  *)
(***************************************************************************)
VARIABLES up

(***************************************************************************)
(*   store     the files under .sessions/: for every (model, session id)   *)
(*             whether the file exists and the history it holds            *)
(*   memory    Server.memory.Content                                       *)
(*   sess      for every client connection the chat request being handled  *)
(*             as far as sessions are concerned: pc is "idle", "composed"  *)
(*             (outgoing messages built), "called" (RetryWithBackoff       *)
(*             returned), "loaded" (session loaded again and both turns    *)
(*             added) or "responded"                                       *)
(*   served    number of requests received                                 *)
(***************************************************************************)
VARIABLES store, memory, sess, served

(***************************************************************************)
(*   models    Server.models, the catalogue: canonical id -> ModelInfo     *)
(*   req       the chat request being handled, from the decoded body to    *)
(*             the start of the retry loop: pc is "idle", "defaulted"      *)
(*             (model resolved, defaults set), "composed" (upstream        *)
(*             payload, context and retry configuration built) or          *)
(*             "called" (RetryWithBackoff returned) or "responded";        *)
(*             history: body (the numbers of the request body as           *)
(*             decoded), reply (the answer of the upstream), headers (the  *)
(*             credential headers sent)                                    *)
(*   resolved  history: the pairs <<client token, id of the entry the      *)
(*             resolution returned>> of all requests so far                *)
(***************************************************************************)
VARIABLES models, req, resolved

(***************************************************************************)
(*   smu       Server.mu, a sync.RWMutex: readers (the threads holding it  *)
(*             for reading), writer (the thread holding it for writing)    *)
(*             and pending (the thread whose Lock call has announced       *)
(*             itself and waits for the readers to leave); "" is no thread *)
(*   bmu       the mutex of every installed breaker, in the same form      *)
(*   installed the keys of Server.breakers                                 *)
(*   thr       for every handler thread where it is: pc, the model token   *)
(*             of a chat request, the number of breaker.Do calls made and, *)
(*             for the health handler, the breakers already visited        *)
(***************************************************************************)
VARIABLES smu, bmu, installed, thr

(***************************************************************************)
(*   period    history: how often the breaker cb has entered HalfOpen      *)
(*   admIn     history: for every caller of cb.Do the admission of its     *)
(*             call: the state the breaker was in when fn started and the  *)
(*             value of period at that moment                              *)
(***************************************************************************)
VARIABLES period, admIn

(***************************************************************************)
(*   lcb       one legacy CircuitBreaker: failures, lastFail, threshold    *)
(*             and timeout                                                 *)
(*   lmu       the thread holding the mutex of lcb, "" when it is free     *)
(*   lreq      for every client connection the chat request the legacy     *)
(*             handler is serving: pc is "idle", "loop" (at the head of    *)
(*             the retry loop), "lock" (in cb.mu.Lock of Do), "fn" (CallAPI*)
(*             is executing), "sleep", "after" (behind the loop) or        *)
(*             "responded"; i, Retries, lastErr and responseText are the   *)
(*             handler's variables; history: succeeded (an attempt of the  *)
(*             request returned a text), saved (the session turns were     *)
(*             written), rejected (the last Do did not invoke fn)          *)
(***************************************************************************)
VARIABLES lcb, lmu, lreq

(***************************************************************************)
(*   disk      the content of ./memory.json, NoMemoryFile while the file   *)
(*             does not exist                                              *)
(*   put       for every connection sending requests to /api/memory the    *)
(*             request being handled: method, pc ("idle", "lock",          *)
(*             "lockpend", "locked", "write", "rlock", "read", "respond",  *)
(*             "responded"), mem (the decoded body of a PUT, the copy a    *)
(*             GET took) and the status of the response                    *)
(*   puts      history: whether a PUT has been answered, and whether a     *)
(*             WriteFile has failed                                        *)
(***************************************************************************)
VARIABLES disk, put, puts

cbVars == <<cfg, cb, pc, ret, hoAdmits, closedFails>>
upVars == <<up>>
ssVars == <<store, memory, sess, served>>
rqVars == <<models, req, resolved>>
lkVars == <<smu, bmu, installed, thr>>
trVars == <<period, admIn>>
lgVars == <<lcb, lmu, lreq>>
pmVars == <<disk, put, puts>>
moreVars == <<lgVars, pmVars>>
restVars == <<rqVars, lkVars, trVars, moreVars>>
rtVars == <<rcfg, rt, ctxDone, outs, waits>>
chVars == <<breakers, chat, flog, ticks>>
vars == <<now, cbVars, rtVars, chVars, upVars, ssVars, restVars>>

Clients == 1 .. NumClients
Tokens == {"m1"}

NoBreaker == [state |-> "none", failures |-> <<>>, halfOpenAttempts |-> 0, lastStateChange |-> 0]

\* variant: every request installs a new breaker
installIfAbsent_Always(b, t) ==
    NewEnhancedCircuitBreaker(t)

\* the entry of the breaker map after `if _, exists := ...; !exists { ... }`
installIfAbsent(b, t) ==
    IF b = NoBreaker THEN NewEnhancedCircuitBreaker(t) ELSE b

IdleRequest ==
    [pc |-> "idle", model |-> "", retries |-> 0,
     rt |-> [RetryStart(DefaultRetryConfig) EXCEPT !.pc = "done"],
     wakeAt |-> 0, aborted |-> FALSE,
     rejected |-> FALSE, resp |-> NoResponse]

\* the chat variables while no request handling is modelled
ChIdle ==
    /\ breakers = [m \in Tokens |-> NoBreaker]
    /\ chat = [c \in Clients |-> IdleRequest]
    /\ flog = [m \in Tokens |-> <<>>]
    /\ ticks = 0

(***************************************************************************)
(* Sessions.  A history is a sequence of messages; a session file either   *)
(* does not exist or holds a history.                                      *)
(***************************************************************************)
MaxHistory == 20

Message(role, content) == [role |-> role, content |-> content]

\* variant: one element is dropped when the cap is exceeded
AddMessage_DropOne(h, role, content) ==
    LET a == Append(h, Message(role, content))
    IN  IF Len(a) > MaxHistory THEN Tail(a) ELSE a

\* variant: the oldest turns are kept
AddMessage_KeepOldest(h, role, content) ==
    LET a == Append(h, Message(role, content))
    IN  IF Len(a) > MaxHistory THEN SubSeq(a, 1, MaxHistory) ELSE a

\* append, then s.History = s.History[len(s.History)-20:] if longer than 20
AddMessage(h, role, content) ==
    LET a == Append(h, Message(role, content))
    IN  IF Len(a) > MaxHistory THEN SubSeq(a, Len(a) - MaxHistory + 1, Len(a)) ELSE a

NoFile == [exists |-> FALSE, history |-> <<>>]
File(h) == [exists |-> TRUE, history |-> h]

SessionModels == {"m1"}
SessionIds == {"x", "y"}
SessionKeys == SessionModels \X SessionIds

\* the history LoadSession returns: empty for "" and for a missing file
LoadSession(st, sessionID, model) ==
    IF sessionID = "" THEN <<>>
    ELSE IF ~st[<<model, sessionID>>].exists THEN <<>>
    ELSE st[<<model, sessionID>>].history

\* variant: Save appends the last two turns of h to what the file holds
Save_Merge(st, h, sessionID, model) ==
    IF sessionID = "" \/ Len(h) < 2 THEN st
    ELSE [st EXCEPT ![<<model, sessionID>>] =
            File(AddMessage(AddMessage(LoadSession(st, sessionID, model),
                                       h[Len(h) - 1].role, h[Len(h) - 1].content),
                            h[Len(h)].role, h[Len(h)].content))]

\* the files after Session.Save
Save(st, h, sessionID, model) ==
    IF sessionID = "" THEN st
    ELSE [st EXCEPT ![<<model, sessionID>>] = File(h)]

(***************************************************************************)
(* handleChatCompletions: the outgoing message list and the user prompt.   *)
(***************************************************************************)
\* if mem.Content != "": one system message, first
memoryTurn(mem) ==
    IF mem # "" THEN <<Message("system", mem)>> ELSE <<>>

\* if req.SessionID != "": the history of LoadSession(req.SessionID, req.Model)
sessionTurns(st, sessionID, model) ==
    IF sessionID # "" THEN LoadSession(st, sessionID, model) ELSE <<>>

\* variant: client system messages are left out
clientTurns_SkipSystem(msgs) ==
    SelectSeq(msgs, LAMBDA m : m.role # "system")

\* the loop over req.Messages: both branches append the message
clientTurns(msgs) ==
    [i \in 1 .. Len(msgs) |->
        IF msgs[i].role = "system"
        THEN Message("system", msgs[i].content)
        ELSE Message(msgs[i].role, msgs[i].content)]

\* variant: the history read while the outgoing messages were composed
persistedSession_Stale(st, mem, r) ==
    SubSeq(r.out, Len(memoryTurn(mem)) + 1, Len(r.out) - Len(clientTurns(r.msgs)))

\* the session the update after a successful call starts from:
\* sigoengine.LoadSession(req.SessionID, req.Model), read again
persistedSession(st, mem, r) ==
    LoadSession(st, r.sid, r.model)

composeMessages(mem, st, sessionID, model, msgs) ==
    memoryTurn(mem) \o sessionTurns(st, sessionID, model) \o clientTurns(msgs)

RECURSIVE userPromptFrom(_, _)
\* userPrompt after the loop over the remaining messages, acc its value so far
userPromptFrom(msgs, acc) ==
    IF msgs = <<>> THEN acc
    ELSE userPromptFrom(Tail(msgs),
                        IF Head(msgs).role # "system" /\ Head(msgs).role = "user"
                        THEN Head(msgs).content
                        ELSE acc)

\* variant: the first user message is remembered
userPrompt_First(msgs) ==
    LET us == SelectSeq(msgs, LAMBDA m : m.role = "user")
    IN  IF us = <<>> THEN "" ELSE Head(us).content

\* var userPrompt string; ... if msg.Role == "user" { userPrompt = msg.Content }
userPrompt(msgs) ==
    userPromptFrom(msgs, "")

SessClients == {"c1"}

IdleSess ==
    [pc |-> "idle", sid |-> "", model |-> "", msgs |-> <<>>, out |-> <<>>,
     userPrompt |-> "", err |-> NoErr, text |-> "", session |-> <<>>,
     resp |-> NoResponse]

\* the session variables while no session handling is modelled
SsIdle ==
    /\ store = [k \in SessionKeys |-> NoFile]
    /\ memory = ""
    /\ sess = [c \in SessClients |-> IdleSess]
    /\ served = 0

IdleUp ==
    [pc |-> "idle", reply |-> [kind |-> "none", status |-> 0, retryAfterSec |-> 0, body |-> ""],
     callErr |-> NoErr, doErr |-> NoErr, origin |-> "none", resp |-> NoResponse]

\* the variable of the single request while it is not modelled
UpIdle ==
    up = IdleUp

(***************************************************************************)
(* The model catalogue and the front of handleChatCompletions: resolution  *)
(* of the client's model token and the defaults of the request.            *)
(* Temperatures are counted in tenths.                                     *)
(***************************************************************************)
ModelIds == {"a", "b"}
Shortcodes == {"a", "b", "s"}

ModelInfo(id, shortcode, maxOutputTokens) ==
    [ID |-> id, Shortcode |-> shortcode,
     Endpoint |-> IF id = "a" THEN "https://api.anthropic.com/v1/messages"
                  ELSE "https://api.openai.com/v1/chat/completions",
     APIKey |-> "KEY_" \o id, MaxOutputTokens |-> maxOutputTokens,
     MinTemperature |-> 0, MaxTemperature |-> IF id = "a" THEN 20 ELSE 0]

NoModelInfo == ModelInfo("", "", 0)

\* loadModels: one entry per id (a later line of the file replaces an
\* earlier one with the same id); shortcodes are taken as they are written
loadModels ==
    UNION { [ids -> {ModelInfo(i, sc, mo) : i \in ids, sc \in Shortcodes, mo \in {0, 8}}] :
                ids \in SUBSET ModelIds \ {{}} }

Catalogues == { m \in loadModels : \A i \in DOMAIN m : m[i].ID = i }

\* the entries the resolution of a token may return: the id map first; on a
\* miss the first entry of a range over the map whose Shortcode equals the
\* token, and the order of a range over a Go map is unspecified
resolveModel(m, token) ==
    IF token \in DOMAIN m
    THEN {m[token]}
    ELSE {m[i] : i \in {j \in DOMAIN m : m[j].Shortcode = token}}

DEFAULT_TIMEOUT == 180

defaultMaxTokens(maxTokens, info) ==
    IF maxTokens = 0 /\ info.MaxOutputTokens > 0 THEN info.MaxOutputTokens ELSE maxTokens

defaultTemp(temp, info) ==
    IF temp = 0
    THEN IF info.MinTemperature < info.MaxTemperature
         THEN (info.MinTemperature + info.MaxTemperature) \div 2
         ELSE 10
    ELSE temp

defaultTimeout(timeout) == IF timeout = 0 THEN DEFAULT_TIMEOUT ELSE timeout

\* os.Getenv: the credential variables of the catalogue are set
Getenv(name) == IF name = "" THEN "" ELSE "secret"

\* cfg := &sigoengine.ProviderConfig{Endpoint, Model, APIKey}: Type and
\* Headers keep their zero values
ProviderConfig(modelInfo, modelID) ==
    [Endpoint |-> modelInfo.Endpoint, Model |-> modelID,
     APIKey |-> Getenv(modelInfo.APIKey), Type |-> ""]

\* the credential headers CallAPI sets
authHeaders(pcfg) ==
    IF pcfg.Type = "anthropic" THEN {"x-api-key", "anthropic-version"}
    ELSE IF pcfg.APIKey # "" THEN {"Authorization"}
    ELSE {}

\* what the handler hands on: the provider configuration, the max_tokens of
\* the upstream payload, the budget of the request context in seconds and
\* the retry configuration
NoRun ==
    [cfg |-> ProviderConfig(NoModelInfo, ""), max_tokens |-> 0, budget |-> 0,
     retryConfig |-> DefaultRetryConfig]

NoBody == [max_tokens |-> 0, temperature |-> 0, timeout |-> 0, retries |-> 0]

IdleReq ==
    [pc |-> "idle", Model |-> "", modelID |-> "", modelInfo |-> NoModelInfo,
     MaxTokens |-> 0, Temp |-> 0, Timeout |-> 0, Retries |-> 0,
     body |-> NoBody, run |-> NoRun,
     reply |-> [kind |-> "none", status |-> 0, retryAfterSec |-> 0, body |-> ""],
     headers |-> {}, text |-> "", err |-> NoErr, resp |-> NoResponse]

\* the request variables while no model resolution is modelled
RqIdle ==
    /\ models = [i \in {"m1"} |-> ModelInfo("m1", "m1", 0)]
    /\ req = IdleReq
    /\ resolved = {}

(***************************************************************************)
(* sync.RWMutex.  A Lock call first announces itself, which keeps new      *)
(* readers out, and returns when the readers present have left; only one   *)
(* Lock call at a time gets as far as announcing.                          *)
(***************************************************************************)
FreeMutex == [readers |-> {}, writer |-> "", pending |-> ""]

CanRLock(mu) == mu.writer = "" /\ mu.pending = ""
RLock(mu, t) == [mu EXCEPT !.readers = @ \cup {t}]
RUnlock(mu, t) == [mu EXCEPT !.readers = @ \ {t}]
CanAnnounce(mu) == mu.writer = "" /\ mu.pending = ""
Announce(mu, t) == [mu EXCEPT !.pending = t]
CanLock(mu, t) == mu.pending = t /\ mu.readers = {}
Lock(mu, t) == [mu EXCEPT !.writer = t, !.pending = ""]
Unlock(mu, t) == [mu EXCEPT !.writer = ""]

\* variant: Do keeps cb.mu while fn runs
unlockBeforeFn_Keep(mu, t) ==
    mu

\* cb.mu.Unlock() of Do after the admission, before fn
unlockBeforeFn(mu, t) ==
    Unlock(mu, t)

\* variant: the write lock is kept while the retry loop runs
unlockAfterInstall_Keep(mu, t) ==
    mu

\* s.mu.Unlock() after the breaker lookup, before RetryWithBackoff
unlockAfterInstall(mu, t) ==
    Unlock(mu, t)

LkChatThreads == {"c1", "c2"}
LkThreads == LkChatThreads \cup {"h", "m"}
LkTokens == {"m1", "m2"}

IdleThread == [pc |-> "idle", tok |-> "", calls |-> 0, visited |-> {}]

\* the lock variables while no locking is modelled
LkIdle ==
    /\ smu = FreeMutex
    /\ bmu = [m \in LkTokens |-> FreeMutex]
    /\ installed = {}
    /\ thr = [t \in LkThreads |-> IdleThread]

NoAdmission == [state |-> "none", period |-> 0]

TrIdle ==
    /\ period = 0
    /\ admIn = [c \in 1 .. NumCallers |-> NoAdmission]

\* the zero time.Time and the time.Time of the clock value t
ZeroTime == [valid |-> FALSE, t |-> 0]
TimeAt(t) == [valid |-> TRUE, t |-> t]

\* &CircuitBreaker{threshold: 3, timeout: 5 * time.Minute}; the unit of the
\* clock is one minute
NewCircuitBreaker ==
    [failures |-> 0, lastFail |-> ZeroTime, threshold |-> 3, timeout |-> 5]

LgCallers == {"c1", "c2"}

IdleLegacy ==
    [pc |-> "idle", Retries |-> 0, i |-> 0, lastErr |-> NoErr, responseText |-> "",
     resp |-> NoResponse, succeeded |-> FALSE, saved |-> FALSE, rejected |-> FALSE]

LgIdle ==
    /\ lcb = NewCircuitBreaker
    /\ lmu = ""
    /\ lreq = [c \in LgCallers |-> IdleLegacy]

NoMemoryFile == "<no file>"

PmThreads == {"p1", "p2", "p3"}

IdlePut == [method |-> "", pc |-> "idle", mem |-> "", status |-> 0]

PmIdle ==
    /\ disk = NoMemoryFile
    /\ put = [t \in PmThreads |-> IdlePut]
    /\ puts = [answered |-> FALSE, writeFailed |-> FALSE]

MoreIdle ==
    LgIdle /\ PmIdle

RestIdle ==
    RqIdle /\ LkIdle /\ TrIdle /\ MoreIdle

Callers == 1 .. NumCallers

\* what fn may return to the breaker
FnOutcomes ==
    { NoErr,
      APIError(ErrServerError, 500, 0, "body"),
      APIError(ErrClientError, 400, 0, "body"),
      PlainError("dial tcp: i/o timeout") }

Configs ==
    { CircuitBreakerConfig(th, w, cd, h) :
        th \in {1, MaxThreshold}, w \in {1, MaxWindow},
        cd \in {1, MaxCooldown}, h \in {0, 1, MaxHalfOpen} }

\* the retry variables while no retry loop is modelled
RtIdle ==
    /\ rcfg = DefaultRetryConfig
    /\ rt = [RetryStart(rcfg) EXCEPT !.pc = "done"]
    /\ ctxDone = FALSE
    /\ outs = <<>>
    /\ waits = <<>>

CBInit ==
    /\ now = 0
    /\ UpIdle
    /\ SsIdle
    /\ RestIdle
    /\ RtIdle
    /\ ChIdle
    /\ cfg \in Configs
    /\ cb = NewEnhancedCircuitBreaker(0)
    /\ pc = [c \in Callers |-> "idle"]
    /\ ret = [c \in Callers |-> NoErr]
    /\ hoAdmits = 0
    /\ closedFails = 0

\* a caller enters Do: first critical section
CBBegin(c) ==
    /\ pc[c] = "idle"
    /\ LET r == DoAdmit(cb, cfg, now)
       IN  /\ cb' = r.cb
           /\ pc' = [pc EXCEPT ![c] = IF r.err = NoErr THEN "running" ELSE "done"]
           /\ ret' = [ret EXCEPT ![c] = r.err]
           /\ hoAdmits' = IF r.cb.state # CBStateHalfOpen THEN hoAdmits
                          ELSE (IF cb.state = CBStateOpen THEN 0 ELSE hoAdmits)
                               + (IF r.err = NoErr THEN 1 ELSE 0)
    /\ UNCHANGED <<restVars, upVars, ssVars, now, cfg, closedFails, rtVars, chVars>>

\* fn returns err: second critical section
CBFinish(c) ==
    /\ pc[c] = "running"
    /\ \E err \in FnOutcomes :
        /\ IsRetryable(ClassifyError(err)) => Len(cb.failures) < MaxFailures
        /\ cb' = DoComplete(cb, cfg, now, err)
        /\ ret' = [ret EXCEPT ![c] = err]
        /\ closedFails' = IF cb'.state # CBStateClosed \/ cb.state # CBStateClosed THEN 0
                          ELSE IF err # NoErr /\ IsRetryable(ClassifyError(err))
                          THEN closedFails + 1
                          ELSE closedFails
    /\ pc' = [pc EXCEPT ![c] = "done"]
    /\ UNCHANGED <<restVars, upVars, ssVars, now, cfg, hoAdmits, rtVars, chVars>>

\* the caller has its result and may call Do again
CBReturn(c) ==
    /\ pc[c] = "done"
    /\ pc' = [pc EXCEPT ![c] = "idle"]
    /\ ret' = [ret EXCEPT ![c] = NoErr]
    /\ UNCHANGED <<restVars, upVars, ssVars, now, cfg, cb, hoAdmits, closedFails, rtVars, chVars>>

Tick ==
    /\ now < MaxTime
    /\ now' = now + 1
    /\ UNCHANGED <<restVars, upVars, ssVars, cbVars, rtVars, chVars>>

CBNext ==
    \/ \E c \in Callers : CBBegin(c)
    \/ \E c \in Callers : CBFinish(c)
    \/ \E c \in Callers : CBReturn(c)
    \/ Tick

SpecCB == CBInit /\ [][CBNext]_vars

\* the scheduling the liveness of the breaker rests on: the clock advances,
\* callers keep invoking Do, every admitted fn returns and every Do returns
CBFairness ==
    /\ WF_vars(Tick)
    /\ \A c \in Callers :
          WF_vars(CBBegin(c)) /\ WF_vars(CBFinish(c)) /\ WF_vars(CBReturn(c))

SpecCBLive == CBInit /\ [][CBNext]_vars /\ CBFairness

CBTypeOK ==
    /\ now \in 0 .. MaxTime
    /\ cb.state \in {CBStateClosed, CBStateOpen, CBStateHalfOpen}
    /\ \A c \in Callers : pc[c] \in {"idle", "running", "done"}
(***************************************************************************)
(* SpecTrial: the breaker of SpecCB with the admission of every call kept  *)
(* as history, so that the completion of a call can be told from the       *)
(* completion of a trial of the current HalfOpen period.                   *)
(***************************************************************************)
TrInit ==
    /\ CBInit

\* a caller enters Do: first critical section
TrBegin(c) ==
    /\ pc[c] = "idle"
    /\ LET r == DoAdmit(cb, cfg, now)
           entered == cb.state = CBStateOpen /\ r.cb.state = CBStateHalfOpen
       IN  /\ cb' = r.cb
           /\ pc' = [pc EXCEPT ![c] = IF r.err = NoErr THEN "running" ELSE "done"]
           /\ ret' = [ret EXCEPT ![c] = r.err]
           /\ hoAdmits' = IF r.cb.state # CBStateHalfOpen THEN hoAdmits
                          ELSE (IF cb.state = CBStateOpen THEN 0 ELSE hoAdmits)
                               + (IF r.err = NoErr THEN 1 ELSE 0)
           /\ period' = IF entered THEN period + 1 ELSE period
           /\ admIn' = IF r.err = NoErr
                       THEN [admIn EXCEPT ![c] = [state |-> r.cb.state, period |-> period']]
                       ELSE admIn
    /\ UNCHANGED <<rqVars, lkVars, moreVars, upVars, ssVars, now, cfg, closedFails, rtVars, chVars>>

\* fn returns err: second critical section
TrFinish(c) ==
    /\ pc[c] = "running"
    /\ \E err \in FnOutcomes :
        /\ IsRetryable(ClassifyError(err)) => Len(cb.failures) < MaxFailures
        /\ cb' = DoComplete(cb, cfg, now, err)
        /\ ret' = [ret EXCEPT ![c] = err]
        /\ closedFails' = IF cb'.state # CBStateClosed \/ cb.state # CBStateClosed THEN 0
                          ELSE IF err # NoErr /\ IsRetryable(ClassifyError(err))
                          THEN closedFails + 1
                          ELSE closedFails
    /\ pc' = [pc EXCEPT ![c] = "done"]
    /\ UNCHANGED <<restVars, upVars, ssVars, now, cfg, hoAdmits, rtVars, chVars>>

\* the caller has its result and may call Do again
TrReturn(c) ==
    /\ pc[c] = "done"
    /\ pc' = [pc EXCEPT ![c] = "idle"]
    /\ ret' = [ret EXCEPT ![c] = NoErr]
    /\ admIn' = [admIn EXCEPT ![c] = NoAdmission]
    /\ UNCHANGED <<rqVars, lkVars, moreVars, period, upVars, ssVars, now, cfg, cb, hoAdmits,
                   closedFails, rtVars, chVars>>

TrNext ==
    \/ \E c \in Callers : TrBegin(c)
    \/ \E c \in Callers : TrFinish(c)
    \/ \E c \in Callers : TrReturn(c)
    \/ Tick

SpecTrial == TrInit /\ [][TrNext]_vars

(***************************************************************************)
(* SpecRetry: one invocation of RetryWithBackoff over an arbitrary work    *)
(* closure, for a range of configurations.                                 *)
(***************************************************************************)
\* what the work closure may return
WorkOutcomes ==
    { NoErr,
      APIError(ErrRateLimit, 429, 0, "body"),
      APIError(ErrRateLimit, 429, 2000, "body"),
      APIError(ErrServerError, 500, 0, "body"),
      APIError(ErrAuthFailed, 401, 0, "body"),
      APIError(ErrClientError, 400, 0, "body"),
      ErrOpenRejected,
      NewError(ErrConfigNotFound, "config"),
      NewError(ErrAPIKeyMissing, "key"),
      NewError(ErrAPIFailed, "HTTP request failed"),
      PlainError("context deadline exceeded"),
      PlainError("connection refused") }

RetryConfigs ==
    { RetryConfig(m, i, x, f) :
        m \in -2 .. MaxRetriesTop, i \in {500, 6000}, x \in {1000, 5000}, f \in {10, 15, 20} }

\* the breaker variables while no breaker is modelled
CBIdle ==
    /\ cfg = CircuitBreakerConfig(1, 1, 1, 1)
    /\ cb = NewEnhancedCircuitBreaker(0)
    /\ pc = [c \in Callers |-> "idle"]
    /\ ret = [c \in Callers |-> NoErr]
    /\ hoAdmits = 0
    /\ closedFails = 0

RtInit ==
    /\ now = 0
    /\ UpIdle
    /\ SsIdle
    /\ RestIdle
    /\ CBIdle
    /\ ChIdle
    /\ rcfg \in RetryConfigs
    /\ rt = RetryStart(rcfg)
    /\ ctxDone = FALSE
    /\ outs = <<>>
    /\ waits = <<>>

\* the loop head
RtLoop ==
    /\ rt.pc = "loop"
    /\ rt' = RetryLoop(rt, rcfg)
    /\ UNCHANGED <<restVars, upVars, ssVars, now, cbVars, rcfg, ctxDone, outs, waits, chVars>>

\* fn returns
RtFnReturn ==
    /\ rt.pc = "infn"
    /\ \E err \in WorkOutcomes :
        /\ rt' = RetryAfterFn(rt, rcfg, err)
        /\ outs' = Append(outs, err)
        /\ waits' = IF rt'.pc = "wait"
                    THEN Append(waits, [sleep |-> rt'.sleep, cause |-> err, attempt |-> rt.attempt])
                    ELSE waits
    /\ UNCHANGED <<restVars, upVars, ssVars, now, cbVars, rcfg, ctxDone, chVars>>

\* the timer of the select fires; a select entered with the context already
\* done takes ctx.Done() unless the timer is ready at once
RtTimer ==
    /\ rt.pc = "wait"
    /\ ~ctxDone \/ rt.sleep <= 0
    /\ rt' = RetryAfterWait(rt, rcfg)
    /\ UNCHANGED <<restVars, upVars, ssVars, now, cbVars, rcfg, ctxDone, outs, waits, chVars>>

\* the select is entered with the context already done and takes ctx.Done()
RtCancelled ==
    /\ rt.pc = "wait"
    /\ ctxDone
    /\ rt' = RetryCancelled(rt)
    /\ UNCHANGED <<restVars, upVars, ssVars, now, cbVars, rcfg, ctxDone, outs, waits, chVars>>

\* the client aborts or the request deadline passes; an invocation blocked
\* in the select is woken by ctx.Done() and returns
RtCtxCancel ==
    /\ ~ctxDone
    /\ rt.pc # "done"
    /\ ctxDone' = TRUE
    /\ rt' = IF rt.pc = "wait" THEN RetryCancelled(rt) ELSE rt
    /\ UNCHANGED <<restVars, upVars, ssVars, now, cbVars, rcfg, outs, waits, chVars>>

RtNext ==
    \/ RtLoop
    \/ RtFnReturn
    \/ RtTimer
    \/ RtCancelled
    \/ RtCtxCancel

SpecRetry == RtInit /\ [][RtNext]_vars

(***************************************************************************)
(* SpecChat: concurrent chat requests through                              *)
(* RetryWithBackoff(breaker.Do(CallAPI)) with the breaker configuration    *)
(* and the retry defaults of handleChatCompletions.  The clock counts      *)
(* milliseconds.                                                           *)
(***************************************************************************)
\* what the upstream may answer
ChatReplies ==
    { Reply("http", 200, 0, "openai"),
      Reply("http", 500, 0, "body"),
      Reply("transport", 0, 0, "context deadline exceeded") }

\* values of the retries field of a request
RetriesChoices == {-1, 0, 1}

ChatInit ==
    /\ now = 0
    /\ UpIdle
    /\ SsIdle
    /\ RestIdle
    /\ CBIdle
    /\ RtIdle
    /\ ChIdle

\* a request arrives: decoding, model lookup and defaults
ChatReceive(c) ==
    /\ chat[c].pc = "idle"
    /\ \E m \in Tokens, n \in RetriesChoices :
        chat' = [chat EXCEPT ![c] = [IdleRequest EXCEPT !.pc = "breaker",
                                                         !.model = m,
                                                         !.retries = defaultRetries(n)]]
    /\ UNCHANGED <<restVars, upVars, ssVars, now, cbVars, rtVars, breakers, flog, ticks>>

\* under s.mu.Lock: install the breaker of req.Model if absent; then
\* RetryWithBackoff starts
ChatGetBreaker(c) ==
    /\ chat[c].pc = "breaker"
    /\ LET m == breakerKey(chat[c].model)
       IN  breakers' = [breakers EXCEPT ![m] = installIfAbsent(@, now)]
    /\ chat' = [chat EXCEPT ![c].pc = "retry",
                            ![c].rt = RetryStart(chatRetryConfig(chat[c].retries))]
    /\ UNCHANGED <<restVars, upVars, ssVars, now, cbVars, rtVars, flog, ticks>>

\* the loop head of RetryWithBackoff and, inside fn, the first critical
\* section of breaker.Do
ChatAttempt(c) ==
    /\ chat[c].pc = "retry"
    /\ chat[c].rt.pc = "loop"
    /\ LET m == breakerKey(chat[c].model)
           rc == chatRetryConfig(chat[c].retries)
           r1 == RetryLoop(chat[c].rt, rc)
           a == DoAdmit(breakers[m], ChatCBConfig, now)
           r2 == RetryAfterFn(r1, rc, a.err)
       IN  IF r1.pc = "done"
           THEN /\ chat' = [chat EXCEPT ![c].rt = r1]
                /\ UNCHANGED breakers
           ELSE /\ breakers' = [breakers EXCEPT ![m] = a.cb]
                /\ IF a.err = NoErr
                   THEN chat' = [chat EXCEPT ![c].pc = "upstream",
                                             ![c].rt = r1]
                   ELSE chat' = [chat EXCEPT ![c].rt = r2,
                                             ![c].wakeAt = now + r2.sleep,
                                             ![c].rejected = TRUE]
    /\ UNCHANGED <<restVars, upVars, ssVars, now, cbVars, rtVars, flog, ticks>>

\* CallAPI returns: second critical section of breaker.Do, then the retry
\* loop decides
ChatUpstreamReturn(c) ==
    /\ chat[c].pc = "upstream"
    /\ \E reply \in ChatReplies :
        /\ chat[c].aborted => reply.kind = "transport"
        /\ LET m == breakerKey(chat[c].model)
               rc == chatRetryConfig(chat[c].retries)
               res == CallAPI("", reply)
               b2 == DoComplete(breakers[m], ChatCBConfig, now, res.err)
               r2 == RetryAfterFn(chat[c].rt, rc, res.err)
           IN  /\ breakers' = [breakers EXCEPT ![m] = b2]
               /\ chat' = [chat EXCEPT ![c].pc = "retry",
                                       ![c].rt = r2,
                                       ![c].wakeAt = now + r2.sleep]
               /\ flog' = [flog EXCEPT ![m] =
                             IF b2.state = CBStateClosed /\ breakers[m].state # CBStateClosed
                             THEN <<>>
                             ELSE IF res.err # NoErr /\ ~NonRetryableKind(res.err)
                             THEN Append(@, now)
                             ELSE @]
    /\ UNCHANGED <<restVars, upVars, ssVars, now, cbVars, rtVars, ticks>>

\* the backoff wait ends
ChatTimer(c) ==
    /\ chat[c].pc = "retry"
    /\ chat[c].rt.pc = "wait"
    /\ now >= chat[c].wakeAt
    /\ chat' = [chat EXCEPT ![c].rt = RetryAfterWait(@, chatRetryConfig(chat[c].retries))]
    /\ UNCHANGED <<restVars, upVars, ssVars, now, cbVars, rtVars, breakers, flog, ticks>>

\* the select finds both the timer and the request context ready and takes
\* ctx.Done()
ChatCancelled(c) ==
    /\ chat[c].pc = "retry"
    /\ chat[c].rt.pc = "wait"
    /\ chat[c].aborted
    /\ chat' = [chat EXCEPT ![c].rt = RetryCancelled(@)]
    /\ UNCHANGED <<restVars, upVars, ssVars, now, cbVars, rtVars, breakers, flog, ticks>>

\* RetryWithBackoff returned: error envelope or the 200 response
ChatRespond(c) ==
    /\ chat[c].pc = "retry"
    /\ chat[c].rt.pc = "done"
    /\ chat' = [chat EXCEPT ![c].pc = "responded",
                            ![c].resp = IF chat[c].rt.result # NoErr
                                        THEN errorResponse(ClassifyError(chat[c].rt.result))
                                        ELSE Response(200, "chat.completion", 0)]
    /\ UNCHANGED <<restVars, upVars, ssVars, now, cbVars, rtVars, breakers, flog, ticks>>

\* the connection is free for the next request
ChatClose(c) ==
    /\ chat[c].pc = "responded"
    /\ chat' = [chat EXCEPT ![c] = IdleRequest]
    /\ UNCHANGED <<restVars, upVars, ssVars, now, cbVars, rtVars, breakers, flog, ticks>>

\* the request context is done: the client goes away (r.Context()) or the
\* per-request deadline of context.WithTimeout passes.  A retry loop blocked
\* in the select whose timer has not yet expired is woken by ctx.Done().
ChatAbort(c) ==
    /\ chat[c].pc \in {"retry", "upstream"}
    /\ chat[c].rt.pc # "done"
    /\ ~chat[c].aborted
    /\ chat' = [chat EXCEPT ![c].aborted = TRUE,
                            ![c].rt = IF @.pc = "wait" /\ now < chat[c].wakeAt
                                      THEN RetryCancelled(@)
                                      ELSE @]
    /\ UNCHANGED <<restVars, upVars, ssVars, now, cbVars, rtVars, breakers, flog, ticks>>

\* the clock advances by 500 ms, the initial backoff
ChatTick ==
    /\ ticks < MaxChatTicks
    /\ now' = now + 500
    /\ ticks' = ticks + 1
    /\ UNCHANGED <<restVars, upVars, ssVars, cbVars, rtVars, breakers, chat, flog>>

ChatNext ==
    \/ \E c \in Clients : ChatReceive(c)
    \/ \E c \in Clients : ChatGetBreaker(c)
    \/ \E c \in Clients : ChatAttempt(c)
    \/ \E c \in Clients : ChatUpstreamReturn(c)
    \/ \E c \in Clients : ChatTimer(c)
    \/ \E c \in Clients : ChatCancelled(c)
    \/ \E c \in Clients : ChatRespond(c)
    \/ \E c \in Clients : ChatClose(c)
    \/ \E c \in Clients : ChatAbort(c)
    \/ ChatTick

SpecChat == ChatInit /\ [][ChatNext]_vars

(***************************************************************************)
(* SpecChatLive: SpecChat with a clock that does not stop while a backoff  *)
(* wait is pending, and with the scheduling the termination of a request   *)
(* rests on.  Requests arrive while ticks < MaxChatTicks.                  *)
(***************************************************************************)
LiveWaiting == {c \in Clients : chat[c].pc = "retry" /\ chat[c].rt.pc = "wait"
                                   /\ chat[c].wakeAt > now}

LiveReceive(c) ==
    /\ ticks < MaxChatTicks
    /\ ChatReceive(c)

\* time passes until the next timer of a pending time.After expires
LiveAdvance ==
    /\ LiveWaiting # {}
    /\ \E c \in LiveWaiting :
          /\ \A d \in LiveWaiting : chat[c].wakeAt <= chat[d].wakeAt
          /\ now' = chat[c].wakeAt
    /\ ticks' = ticks + 1
    /\ UNCHANGED <<restVars, upVars, ssVars, cbVars, rtVars, breakers, chat, flog>>

\* one step of the handler goroutine of request c, the return of its upstream
\* call and the expiry of its timer included
LiveHandler(c) ==
    \/ ChatGetBreaker(c)
    \/ ChatAttempt(c)
    \/ ChatUpstreamReturn(c)
    \/ ChatTimer(c)
    \/ ChatCancelled(c)
    \/ ChatRespond(c)

\* every handler goroutine is scheduled, every upstream call returns and
\* the clock does not stop while a timer is pending
LiveFairness ==
    /\ WF_vars(LiveAdvance)
    /\ \A c \in Clients : WF_vars(LiveHandler(c))

LiveNext ==
    \/ \E c \in Clients : LiveReceive(c)
    \/ \E c \in Clients : LiveHandler(c)
    \/ \E c \in Clients : ChatClose(c)
    \/ \E c \in Clients : ChatAbort(c)
    \/ LiveAdvance

SpecChatLive == ChatInit /\ [][LiveNext]_vars /\ LiveFairness

(***************************************************************************)
(* SpecUp: one chat request from the first attempt to the response, for    *)
(* every answer the upstream can give: CallAPI inside breaker.Do inside    *)
(* RetryWithBackoff, then the error mapping of handleChatCompletions.  The *)
(* breaker is the model's breaker with the handler's configuration, fresh  *)
(* or already holding four failures of other requests.                     *)
(***************************************************************************)
UpStatuses == {204, 301, 400, 401, 403, 404, 408, 429, 500, 503, 504}

\* what the upstream may answer
UpReplies ==
    { Reply("http", st, ra, "body") : st \in UpStatuses, ra \in {0, 2} }
    \cup { Reply("http", 200, 0, b) : b \in {"openai", "error", "other"} }
    \cup { Reply("transport", 0, 0, t) : t \in {"context deadline exceeded", "connection refused"} }

UpBreakers ==
    { NewEnhancedCircuitBreaker(0),
      [NewEnhancedCircuitBreaker(0) EXCEPT !.failures = <<0, 0, 0, 0>>] }

NoReply == Reply("none", 0, 0, "")

UpInit ==
    /\ now = 0
    /\ ChIdle
    /\ SsIdle
    /\ RestIdle
    /\ cfg = ChatCBConfig
    /\ cb \in UpBreakers
    /\ pc = [c \in Callers |-> "idle"]
    /\ ret = [c \in Callers |-> NoErr]
    /\ hoAdmits = 0
    /\ closedFails = 0
    /\ rcfg \in { chatRetryConfig(defaultRetries(n)) : n \in RetriesChoices }
    /\ rt = RetryStart(rcfg)
    /\ ctxDone = FALSE
    /\ outs = <<>>
    /\ waits = <<>>
    /\ up = [pc |-> "retry", reply |-> NoReply, callErr |-> NoErr, doErr |-> NoErr,
             origin |-> "none", resp |-> NoResponse]

\* the loop head of RetryWithBackoff and the first critical section of
\* breaker.Do
UpAttempt ==
    /\ up.pc = "retry"
    /\ rt.pc = "loop"
    /\ LET r1 == RetryLoop(rt, rcfg)
           a == DoAdmit(cb, cfg, now)
       IN  IF r1.pc = "done"
           THEN /\ rt' = r1
                /\ UNCHANGED <<cb, up>>
           ELSE /\ cb' = a.cb
                /\ IF a.err = NoErr
                   THEN /\ rt' = r1
                        /\ up' = [up EXCEPT !.pc = "upstream"]
                   ELSE /\ rt' = RetryAfterFn(r1, rcfg, a.err)
                        /\ up' = [up EXCEPT !.doErr = a.err, !.origin = "breaker"]
    /\ UNCHANGED <<restVars, ssVars, chVars, now, cfg, pc, ret, hoAdmits, closedFails,
                   rcfg, ctxDone, outs, waits>>

\* CallAPI returns; second critical section of breaker.Do; the retry loop
\* decides what to do with the error Do returned
UpCallReturn ==
    /\ up.pc = "upstream"
    /\ \E reply \in UpReplies :
        LET res == CallAPI("", reply)
            e == DoReturn(res.err)
        IN  /\ cb' = DoComplete(cb, cfg, now, res.err)
            /\ rt' = RetryAfterFn(rt, rcfg, e)
            /\ up' = [up EXCEPT !.pc = "retry", !.reply = reply, !.callErr = res.err,
                                !.doErr = e, !.origin = "call"]
    /\ UNCHANGED <<restVars, ssVars, chVars, now, cfg, pc, ret, hoAdmits, closedFails,
                   rcfg, ctxDone, outs, waits>>

\* the backoff wait ends
UpTimer ==
    /\ up.pc = "retry"
    /\ rt.pc = "wait"
    /\ rt' = RetryAfterWait(rt, rcfg)
    /\ UNCHANGED <<restVars, ssVars, chVars, now, cbVars, rcfg, ctxDone, outs, waits, up>>

\* the request context is done while the retry loop waits
UpCancel ==
    /\ up.pc = "retry"
    /\ rt.pc = "wait"
    /\ ~ctxDone
    /\ ctxDone' = TRUE
    /\ rt' = RetryCancelled(rt)
    /\ up' = [up EXCEPT !.origin = "cancel"]
    /\ UNCHANGED <<restVars, ssVars, chVars, now, cbVars, rcfg, outs, waits>>

\* RetryWithBackoff returned: error envelope or the 200 response
UpRespond ==
    /\ up.pc = "retry"
    /\ rt.pc = "done"
    /\ up' = [up EXCEPT !.pc = "responded",
                        !.resp = IF rt.result # NoErr
                                 THEN errorResponse(ClassifyError(rt.result))
                                 ELSE Response(200, "chat.completion", 0)]
    /\ UNCHANGED <<restVars, ssVars, chVars, now, cbVars, rtVars>>

UpNext ==
    \/ UpAttempt
    \/ UpCallReturn
    \/ UpTimer
    \/ UpCancel
    \/ UpRespond

SpecUp == UpInit /\ [][UpNext]_vars

(***************************************************************************)
(* SpecSess: chat requests as far as the session store and the outgoing    *)
(* message list are concerned.  What RetryWithBackoff returns is an input. *)
(* The file of session "x" starts missing or with a history of up to       *)
(* MaxStored turns (a file may hold more than MaxHistory turns: nothing    *)
(* truncates on load); the file of session "y" is never addressed.         *)
(***************************************************************************)
\* a history of n turns as found on disk
stored(n) ==
    [i \in 1 .. n |-> Message(IF i % 2 = 1 THEN "user" ELSE "assistant", "t" \o ToString(i))]

StoredLens == {0, 1, MaxHistory - 1, MaxHistory, MaxStored}

\* req.Messages
ClientMessages ==
    { Message("system", "sys"), Message("user", "p1"), Message("user", "p2"),
      Message("user", ""), Message("assistant", "a0") }

MsgSeqs == UNION { [1 .. n -> ClientMessages] : n \in 0 .. MaxMsgs }

\* responseText and err after RetryWithBackoff
SessOutcomes ==
    { [text |-> "answer", err |-> NoErr],
      [text |-> "", err |-> NoErr],
      [text |-> "", err |-> APIError(ErrServerError, 500, 0, "body")],
      [text |-> "", err |-> ErrOpenRejected],
      [text |-> "", err |-> ErrRetryCancelled] }

SessInit ==
    /\ now = 0
    /\ CBIdle
    /\ RtIdle
    /\ ChIdle
    /\ UpIdle
    /\ RestIdle
    /\ \E f \in {NoFile} \cup { File(stored(n)) : n \in StoredLens } :
          store = [k \in SessionKeys |-> IF k = <<"m1", "x">> THEN f ELSE File(stored(1))]
    /\ memory \in {"", "mem"}
    /\ sess = [c \in SessClients |-> IdleSess]
    /\ served = 0

\* a request arrives: decoding, model lookup, then the outgoing messages
\* and the user prompt
SessReceive(c) ==
    /\ sess[c].pc = "idle"
    /\ served < MaxServed
    /\ served' = served + 1
    /\ \E decoded \in BOOLEAN, model \in {"m1", "nope"}, sid \in {"", "x"}, msgs \in MsgSeqs :
          sess' = [sess EXCEPT ![c] =
                     IF ~decoded
                     THEN [IdleSess EXCEPT !.pc = "responded",
                                           !.resp = Response(400, "invalid_request", 0)]
                     ELSE IF model \notin SessionModels
                     THEN [IdleSess EXCEPT !.pc = "responded",
                                           !.resp = Response(400, "model_not_found", 0)]
                     ELSE [IdleSess EXCEPT !.pc = "composed", !.sid = sid, !.model = model,
                                           !.msgs = msgs,
                                           !.out = composeMessages(memory, store, sid, model, msgs),
                                           !.userPrompt = userPrompt(msgs)]]
    /\ UNCHANGED <<restVars, now, cbVars, rtVars, chVars, upVars, store, memory>>

\* RetryWithBackoff returns
SessCallReturn(c) ==
    /\ sess[c].pc = "composed"
    /\ \E res \in SessOutcomes :
          sess' = [sess EXCEPT ![c].pc = "called", ![c].err = res.err, ![c].text = res.text]
    /\ UNCHANGED <<restVars, now, cbVars, rtVars, chVars, upVars, store, memory, served>>

\* if err != nil: the error envelope
SessFail(c) ==
    /\ sess[c].pc = "called"
    /\ sess[c].err # NoErr
    /\ sess' = [sess EXCEPT ![c].pc = "responded",
                            ![c].resp = errorResponse(ClassifyError(sess[c].err))]
    /\ UNCHANGED <<restVars, now, cbVars, rtVars, chVars, upVars, store, memory, served>>

\* success: with a session id and a user prompt the session is loaded afresh
\* and both turns are added; otherwise the response is written at once
SessLoad(c) ==
    /\ sess[c].pc = "called"
    /\ sess[c].err = NoErr
    /\ sess' = [sess EXCEPT ![c] =
                   IF sess[c].sid # "" /\ sess[c].userPrompt # ""
                   THEN [@ EXCEPT !.pc = "loaded",
                                  !.session = AddMessage(
                                      AddMessage(persistedSession(store, memory, sess[c]),
                                                 "user", sess[c].userPrompt),
                                      "assistant", sess[c].text)]
                   ELSE [@ EXCEPT !.pc = "responded",
                                  !.resp = Response(200, "chat.completion", 0)]]
    /\ UNCHANGED <<restVars, now, cbVars, rtVars, chVars, upVars, store, memory, served>>

\* session.Save, then the 200 response
SessSave(c) ==
    /\ sess[c].pc = "loaded"
    /\ store' = Save(store, sess[c].session, sess[c].sid, sess[c].model)
    /\ sess' = [sess EXCEPT ![c].pc = "responded",
                            ![c].resp = Response(200, "chat.completion", 0)]
    /\ UNCHANGED <<restVars, now, cbVars, rtVars, chVars, upVars, memory, served>>

\* the connection is free for the next request
SessClose(c) ==
    /\ sess[c].pc = "responded"
    /\ sess' = [sess EXCEPT ![c] = IdleSess]
    /\ UNCHANGED <<restVars, now, cbVars, rtVars, chVars, upVars, store, memory, served>>

SessNext ==
    \/ \E c \in SessClients : SessReceive(c)
    \/ \E c \in SessClients : SessCallReturn(c)
    \/ \E c \in SessClients : SessFail(c)
    \/ \E c \in SessClients : SessLoad(c)
    \/ \E c \in SessClients : SessSave(c)
    \/ \E c \in SessClients : SessClose(c)

SpecSess == SessInit /\ [][SessNext]_vars

(***************************************************************************)
(* SpecReq: requests are followed through the front of                     *)
(* handleChatCompletions, over the catalogues loadModels can build.        *)
(***************************************************************************)
\* the model tokens clients send
ReqTokens == {"a", "b", "s", "zz"}

\* the optional numbers of a request body; 0 is also what a missing field
\* decodes to
ReqMaxTokens == {-1, 0, 5}
ReqTemps == {0, 7}
ReqTimeouts == {-1, 0, 7}
ReqRetries == {-1, 0, 2}

\* answers of the upstream: 200 with a body in the Anthropic shape, in the
\* OpenAI shape or in neither, and 201 with a body in the OpenAI shape
ReqReplies ==
    { Reply("http", 200, 0, "anthropic"),
      Reply("http", 200, 0, "openai"),
      Reply("http", 200, 0, "other"),
      Reply("http", 201, 0, "openai") }

ReqInit ==
    /\ now = 0
    /\ TrIdle
    /\ MoreIdle
    /\ CBIdle
    /\ RtIdle
    /\ ChIdle
    /\ UpIdle
    /\ SsIdle
    /\ LkIdle
    /\ models \in Catalogues
    /\ req = IdleReq
    /\ resolved = {}

\* a request arrives: body decoded, model resolved, defaults set
ReqReceive ==
    /\ req.pc = "idle"
    /\ \E decoded \in BOOLEAN, token \in ReqTokens, maxTokens \in ReqMaxTokens,
          temp \in ReqTemps, timeout \in ReqTimeouts, retries \in ReqRetries :
          IF ~decoded
          THEN /\ req' = [IdleReq EXCEPT !.pc = "responded",
                                         !.resp = Response(400, "invalid_request", 0)]
               /\ UNCHANGED resolved
          ELSE IF resolveModel(models, token) = {}
          THEN /\ req' = [IdleReq EXCEPT !.pc = "responded", !.Model = token,
                                         !.resp = Response(400, "model_not_found", 0)]
               /\ UNCHANGED resolved
          ELSE \E info \in resolveModel(models, token) :
                  /\ req' = [pc |-> "defaulted", Model |-> token,
                             modelID |-> info.ID, modelInfo |-> info,
                             MaxTokens |-> defaultMaxTokens(maxTokens, info),
                             Temp |-> defaultTemp(temp, info),
                             Timeout |-> defaultTimeout(timeout),
                             Retries |-> defaultRetries(retries),
                             body |-> [max_tokens |-> maxTokens, temperature |-> temp,
                                       timeout |-> timeout, retries |-> retries],
                             run |-> NoRun, reply |-> IdleReq.reply,
                             headers |-> {}, text |-> "", err |-> NoErr,
                             resp |-> NoResponse]
                  /\ resolved' = resolved \cup {<<token, info.ID>>}
    /\ UNCHANGED <<now, cbVars, rtVars, chVars, upVars, ssVars, lkVars, trVars, moreVars, models>>

\* the upstream payload, the request context and the retry configuration
\* are built from the request
ReqCompose ==
    /\ req.pc = "defaulted"
    /\ req' = [req EXCEPT !.pc = "composed",
                          !.run = [cfg |-> ProviderConfig(req.modelInfo, req.modelID),
                                   max_tokens |-> req.MaxTokens,
                                   budget |-> req.Timeout,
                                   retryConfig |-> chatRetryConfig(req.Retries)]]
    /\ UNCHANGED <<now, cbVars, rtVars, chVars, upVars, ssVars, lkVars, trVars, moreVars, models, resolved>>

\* RetryWithBackoff with breaker.Do and CallAPI inside, against an upstream
\* that answers at once and a new breaker: no call at all when the loop
\* does not run; with a budget below zero the request context is expired
\* from the start and client.Do fails
ReqCall ==
    /\ req.pc = "composed"
    /\ \E reply \in IF req.run.budget < 0
                     THEN {Reply("transport", 0, 0, "context deadline exceeded")}
                     ELSE ReqReplies :
          LET rc == req.run.retryConfig
              r1 == RetryLoop(RetryStart(rc), rc)
              adm == DoAdmit(NewEnhancedCircuitBreaker(now), ChatCBConfig, now)
              res == CallAPI(req.run.cfg.Type, reply)
              r2 == RetryAfterFn(r1, rc, DoReturn(res.err))
          IN  IF r1.pc = "done"
              THEN req' = [req EXCEPT !.pc = "called", !.err = r1.result]
              ELSE /\ adm.err = NoErr
                   /\ r2.pc = "done"
                   /\ req' = [req EXCEPT !.pc = "called", !.reply = reply,
                                         !.headers = authHeaders(req.run.cfg),
                                         !.text = res.text, !.err = r2.result]
    /\ UNCHANGED <<now, cbVars, rtVars, chVars, upVars, ssVars, lkVars, trVars, moreVars, models, resolved>>

\* the error envelope or the 200 response with the text as content
ReqRespond ==
    /\ req.pc = "called"
    /\ req' = [req EXCEPT !.pc = "responded",
                          !.resp = IF req.err # NoErr
                                   THEN errorResponse(ClassifyError(req.err))
                                   ELSE Response(200, "chat.completion", 0)]
    /\ UNCHANGED <<now, cbVars, rtVars, chVars, upVars, ssVars, lkVars, trVars, moreVars, models, resolved>>

\* the handler returns
ReqClose ==
    /\ req.pc = "responded"
    /\ req' = IdleReq
    /\ UNCHANGED <<now, cbVars, rtVars, chVars, upVars, ssVars, lkVars, trVars, moreVars, models, resolved>>

ReqNext ==
    \/ ReqReceive
    \/ ReqCompose
    \/ ReqCall
    \/ ReqRespond
    \/ ReqClose

SpecReq == ReqInit /\ [][ReqNext]_vars

(***************************************************************************)
(* SpecMap: two connections send chat requests for two model tokens to a   *)
(* server whose breaker map already holds what earlier requests left: no   *)
(* breaker, a Closed one a failure short of the threshold or an Open one.  *)
(***************************************************************************)
MapClients == {1, 2}
MapTokens == {"m1", "m2"}

RECURSIVE failuresAt(_, _)
failuresAt(n, t) == IF n = 0 THEN <<>> ELSE Append(failuresAt(n - 1, t), t)

\* breakers as requests of the past left them at time t
MapBreakers(t) ==
    { NoBreaker,
      [NewEnhancedCircuitBreaker(t) EXCEPT !.failures = failuresAt(ChatCBConfig.Threshold - 1, t)],
      [NewEnhancedCircuitBreaker(t) EXCEPT !.state = CBStateOpen,
                                           !.failures = failuresAt(ChatCBConfig.Threshold, t)] }

MapInit ==
    /\ now = 0
    /\ UpIdle
    /\ SsIdle
    /\ RestIdle
    /\ CBIdle
    /\ RtIdle
    /\ breakers \in [MapTokens -> MapBreakers(0)]
    /\ chat = [c \in MapClients |-> IdleRequest]
    /\ flog = [m \in MapTokens |-> breakers[m].failures]
    /\ ticks = 0

\* a request arrives: decoding, model lookup and defaults
MapReceive(c) ==
    /\ chat[c].pc = "idle"
    /\ \E m \in MapTokens :
        chat' = [chat EXCEPT ![c] = [IdleRequest EXCEPT !.pc = "breaker",
                                                         !.model = m,
                                                         !.retries = defaultRetries(1)]]
    /\ UNCHANGED <<restVars, upVars, ssVars, now, cbVars, rtVars, breakers, flog, ticks>>

\* the clock advances by 500 ms, the initial backoff
MapTick ==
    /\ ticks < MaxMapTicks
    /\ now' = now + 500
    /\ ticks' = ticks + 1
    /\ UNCHANGED <<restVars, upVars, ssVars, cbVars, rtVars, breakers, chat, flog>>

MapNext ==
    \/ \E c \in MapClients : MapReceive(c)
    \/ \E c \in MapClients : ChatGetBreaker(c)
    \/ \E c \in MapClients : ChatAttempt(c)
    \/ \E c \in MapClients : ChatUpstreamReturn(c)
    \/ \E c \in MapClients : ChatTimer(c)
    \/ \E c \in MapClients : ChatRespond(c)
    \/ \E c \in MapClients : ChatClose(c)
    \/ MapTick

SpecMap == MapInit /\ [][MapNext]_vars

(***************************************************************************)
(* SpecAlias: SpecMap with the model lookup of the handler in front: the   *)
(* catalogue holds one entry with id "m1" and shortcode "m2", and a        *)
(* request names it by either token.                                       *)
(***************************************************************************)
AliasTokens == {"m1", "m2", "zz"}

AliasInit ==
    /\ now = 0
    /\ UpIdle
    /\ SsIdle
    /\ LkIdle
    /\ TrIdle
    /\ MoreIdle
    /\ CBIdle
    /\ RtIdle
    /\ models = [i \in {"m1"} |-> ModelInfo("m1", "m2", 0)]
    /\ req = IdleReq
    /\ resolved = {}
    /\ breakers \in [MapTokens -> MapBreakers(0)]
    /\ chat = [c \in MapClients |-> IdleRequest]
    /\ flog = [m \in MapTokens |-> breakers[m].failures]
    /\ ticks = 0

\* a request arrives: decoding, model lookup by id or shortcode, defaults;
\* req.Model stays the token of the body
AliasReceive(c) ==
    /\ chat[c].pc = "idle"
    /\ \E token \in AliasTokens :
          IF resolveModel(models, token) = {}
          THEN /\ chat' = [chat EXCEPT ![c] = [IdleRequest EXCEPT
                                                  !.pc = "responded",
                                                  !.resp = Response(400, "model_not_found", 0)]]
               /\ UNCHANGED resolved
          ELSE \E info \in resolveModel(models, token) :
                  /\ chat' = [chat EXCEPT ![c] = [IdleRequest EXCEPT
                                                     !.pc = "breaker",
                                                     !.model = token,
                                                     !.retries = defaultRetries(1)]]
                  /\ resolved' = resolved \cup {<<token, info.ID>>}
    /\ UNCHANGED <<lkVars, trVars, moreVars, models, req, upVars, ssVars, now, cbVars, rtVars,
                   breakers, flog, ticks>>

AliasNext ==
    \/ \E c \in MapClients : AliasReceive(c)
    \/ \E c \in MapClients : ChatGetBreaker(c)
    \/ \E c \in MapClients : ChatAttempt(c)
    \/ \E c \in MapClients : ChatUpstreamReturn(c)
    \/ \E c \in MapClients : ChatTimer(c)
    \/ \E c \in MapClients : ChatRespond(c)
    \/ \E c \in MapClients : ChatClose(c)
    \/ MapTick

SpecAlias == AliasInit /\ [][AliasNext]_vars

(***************************************************************************)
(* SpecLock: the locks.  Two chat requests, the health handler and a       *)
(* handler of /api/memory run at once; every Lock, RLock, Unlock and       *)
(* RUnlock of Server.mu and of the breakers' mutexes is a step.  What the  *)
(* breaker decides and what the upstream answers is left open: a call is   *)
(* admitted or rejected, and the retry loop calls breaker.Do again or      *)
(* returns, up to MaxLkCalls calls per request.                            *)
(* pc of a chat thread: "c.rlock" (in s.mu.RLock), "c.resolve" (holds the  *)
(* read lock), "c.lock" (in s.mu.Lock), "c.lockpend" (announced),          *)
(* "c.install" (holds the write lock), "c.retry" (in RetryWithBackoff,     *)
(* outside fn), "d.lock", "d.lockpend", "d.admit" (first critical section  *)
(* of Do), "d.fn" (fn, the upstream call, executes), "d.lock2",            *)
(* "d.lock2pend", "d.record" (second critical section), "c.respond".       *)
(***************************************************************************)
LkInit ==
    /\ now = 0
    /\ TrIdle
    /\ MoreIdle
    /\ CBIdle
    /\ RtIdle
    /\ ChIdle
    /\ UpIdle
    /\ SsIdle
    /\ RqIdle
    /\ LkIdle

LkChatArrive(t) ==
    /\ thr[t].pc = "idle"
    /\ thr' = [thr EXCEPT ![t] = [IdleThread EXCEPT !.pc = "c.rlock"]]
    /\ UNCHANGED <<now, cbVars, rtVars, chVars, upVars, ssVars, rqVars, trVars, moreVars, smu, bmu, installed>>

\* s.mu.RLock() returns
LkChatRLock(t) ==
    /\ thr[t].pc = "c.rlock"
    /\ CanRLock(smu)
    /\ smu' = RLock(smu, t)
    /\ thr' = [thr EXCEPT ![t].pc = "c.resolve"]
    /\ UNCHANGED <<now, cbVars, rtVars, chVars, upVars, ssVars, rqVars, trVars, moreVars, bmu, installed>>

\* the model is resolved, or not found, and the read lock released
LkChatResolve(t) ==
    /\ thr[t].pc = "c.resolve"
    /\ smu' = RUnlock(smu, t)
    /\ \/ \E m \in LkTokens : thr' = [thr EXCEPT ![t].pc = "c.lock", ![t].tok = m]
       \/ thr' = [thr EXCEPT ![t].pc = "c.respond"]
    /\ UNCHANGED <<now, cbVars, rtVars, chVars, upVars, ssVars, rqVars, trVars, moreVars, bmu, installed>>

\* s.mu.Lock() announces itself
LkChatAnnounce(t) ==
    /\ thr[t].pc = "c.lock"
    /\ CanAnnounce(smu)
    /\ smu' = Announce(smu, t)
    /\ thr' = [thr EXCEPT ![t].pc = "c.lockpend"]
    /\ UNCHANGED <<now, cbVars, rtVars, chVars, upVars, ssVars, rqVars, trVars, moreVars, bmu, installed>>

\* s.mu.Lock() returns
LkChatLock(t) ==
    /\ thr[t].pc = "c.lockpend"
    /\ CanLock(smu, t)
    /\ smu' = Lock(smu, t)
    /\ thr' = [thr EXCEPT ![t].pc = "c.install"]
    /\ UNCHANGED <<now, cbVars, rtVars, chVars, upVars, ssVars, rqVars, trVars, moreVars, bmu, installed>>

\* the breaker of req.Model is installed if absent; s.mu.Unlock()
LkChatInstall(t) ==
    /\ thr[t].pc = "c.install"
    /\ installed' = installed \cup {thr[t].tok}
    /\ smu' = unlockAfterInstall(smu, t)
    /\ thr' = [thr EXCEPT ![t].pc = "c.retry"]
    /\ UNCHANGED <<now, cbVars, rtVars, chVars, upVars, ssVars, rqVars, trVars, moreVars, bmu>>

\* RetryWithBackoff calls fn, which calls breaker.Do, or returns
LkChatRetry(t) ==
    /\ thr[t].pc = "c.retry"
    /\ \/ /\ thr[t].calls < MaxLkCalls
          /\ thr' = [thr EXCEPT ![t].pc = "d.lock", ![t].calls = @ + 1]
       \/ thr' = [thr EXCEPT ![t].pc = "c.respond"]
    /\ UNCHANGED <<now, cbVars, rtVars, chVars, upVars, ssVars, rqVars, trVars, moreVars, smu, bmu, installed>>

\* cb.mu.Lock() of Do announces itself
LkDoAnnounce(t) ==
    /\ thr[t].pc \in {"d.lock", "d.lock2"}
    /\ CanAnnounce(bmu[thr[t].tok])
    /\ bmu' = [bmu EXCEPT ![thr[t].tok] = Announce(@, t)]
    /\ thr' = [thr EXCEPT ![t].pc = IF @ = "d.lock" THEN "d.lockpend" ELSE "d.lock2pend"]
    /\ UNCHANGED <<now, cbVars, rtVars, chVars, upVars, ssVars, rqVars, trVars, moreVars, smu, installed>>

\* cb.mu.Lock() of Do returns
LkDoLock(t) ==
    /\ thr[t].pc \in {"d.lockpend", "d.lock2pend"}
    /\ CanLock(bmu[thr[t].tok], t)
    /\ bmu' = [bmu EXCEPT ![thr[t].tok] = Lock(@, t)]
    /\ thr' = [thr EXCEPT ![t].pc = IF @ = "d.lockpend" THEN "d.admit" ELSE "d.record"]
    /\ UNCHANGED <<now, cbVars, rtVars, chVars, upVars, ssVars, rqVars, trVars, moreVars, smu, installed>>

\* the admission decision: Do unlocks and returns the rejection, or purges
\* the failure list, unlocks and starts fn
LkDoAdmit(t) ==
    /\ thr[t].pc = "d.admit"
    /\ \E admitted \in BOOLEAN :
          /\ bmu' = [bmu EXCEPT ![thr[t].tok] = IF admitted THEN unlockBeforeFn(@, t)
                                                             ELSE Unlock(@, t)]
          /\ thr' = [thr EXCEPT ![t].pc = IF admitted THEN "d.fn" ELSE "c.retry"]
    /\ UNCHANGED <<now, cbVars, rtVars, chVars, upVars, ssVars, rqVars, trVars, moreVars, smu, installed>>

\* fn returns; Do calls cb.mu.Lock() again
LkFnReturn(t) ==
    /\ thr[t].pc = "d.fn"
    /\ thr' = [thr EXCEPT ![t].pc = "d.lock2"]
    /\ UNCHANGED <<now, cbVars, rtVars, chVars, upVars, ssVars, rqVars, trVars, moreVars, smu, bmu, installed>>

\* the outcome is recorded; the deferred cb.mu.Unlock(); Do returns
LkDoRecord(t) ==
    /\ thr[t].pc = "d.record"
    /\ bmu' = [bmu EXCEPT ![thr[t].tok] = Unlock(@, t)]
    /\ thr' = [thr EXCEPT ![t].pc = "c.retry"]
    /\ UNCHANGED <<now, cbVars, rtVars, chVars, upVars, ssVars, rqVars, trVars, moreVars, smu, installed>>

\* the response is written and the handler returns
LkChatRespond(t) ==
    /\ thr[t].pc = "c.respond"
    /\ thr' = [thr EXCEPT ![t] = IdleThread]
    /\ UNCHANGED <<now, cbVars, rtVars, chVars, upVars, ssVars, rqVars, trVars, moreVars, smu, bmu, installed>>

(***************************************************************************)
(* handleHealth holds the read lock of Server.mu from start to end and     *)
(* calls IsOpen (cb.mu.RLock), Failures (cb.mu.Lock) and GetStateDetails   *)
(* (cb.mu.RLock) of every installed breaker.  pc: "h.rlock", "h.range",    *)
(* "h.isopen", "h.isopen.in", "h.failures", "h.failurespend",              *)
(* "h.failures.in", "h.details", "h.details.in".                           *)
(***************************************************************************)
LkHealthArrive ==
    /\ thr["h"].pc = "idle"
    /\ thr' = [thr EXCEPT !["h"] = [IdleThread EXCEPT !.pc = "h.rlock"]]
    /\ UNCHANGED <<now, cbVars, rtVars, chVars, upVars, ssVars, rqVars, trVars, moreVars, smu, bmu, installed>>

LkHealthRLock ==
    /\ thr["h"].pc = "h.rlock"
    /\ CanRLock(smu)
    /\ smu' = RLock(smu, "h")
    /\ thr' = [thr EXCEPT !["h"].pc = "h.range"]
    /\ UNCHANGED <<now, cbVars, rtVars, chVars, upVars, ssVars, rqVars, trVars, moreVars, bmu, installed>>

\* the range over s.breakers takes the next breaker, in any order, or ends:
\* the response is written and the deferred s.mu.RUnlock() runs
LkHealthRange ==
    /\ thr["h"].pc = "h.range"
    /\ IF thr["h"].visited # installed
       THEN /\ \E m \in installed \ thr["h"].visited :
                  thr' = [thr EXCEPT !["h"].pc = "h.isopen", !["h"].tok = m]
            /\ UNCHANGED smu
       ELSE /\ thr' = [thr EXCEPT !["h"] = IdleThread]
            /\ smu' = RUnlock(smu, "h")
    /\ UNCHANGED <<now, cbVars, rtVars, chVars, upVars, ssVars, rqVars, trVars, moreVars, bmu, installed>>

\* cb.mu.RLock() of IsOpen or GetStateDetails returns
LkHealthBreakerRLock ==
    /\ thr["h"].pc \in {"h.isopen", "h.details"}
    /\ CanRLock(bmu[thr["h"].tok])
    /\ bmu' = [bmu EXCEPT ![thr["h"].tok] = RLock(@, "h")]
    /\ thr' = [thr EXCEPT !["h"].pc = IF @ = "h.isopen" THEN "h.isopen.in" ELSE "h.details.in"]
    /\ UNCHANGED <<now, cbVars, rtVars, chVars, upVars, ssVars, rqVars, trVars, moreVars, smu, installed>>

\* IsOpen or GetStateDetails returns: the deferred cb.mu.RUnlock()
LkHealthBreakerRUnlock ==
    /\ thr["h"].pc \in {"h.isopen.in", "h.details.in"}
    /\ bmu' = [bmu EXCEPT ![thr["h"].tok] = RUnlock(@, "h")]
    /\ thr' = IF thr["h"].pc = "h.isopen.in"
              THEN [thr EXCEPT !["h"].pc = "h.failures"]
              ELSE [thr EXCEPT !["h"].pc = "h.range", !["h"].visited = @ \cup {thr["h"].tok}]
    /\ UNCHANGED <<now, cbVars, rtVars, chVars, upVars, ssVars, rqVars, trVars, moreVars, smu, installed>>

\* cb.mu.Lock() of Failures announces itself
LkHealthAnnounce ==
    /\ thr["h"].pc = "h.failures"
    /\ CanAnnounce(bmu[thr["h"].tok])
    /\ bmu' = [bmu EXCEPT ![thr["h"].tok] = Announce(@, "h")]
    /\ thr' = [thr EXCEPT !["h"].pc = "h.failurespend"]
    /\ UNCHANGED <<now, cbVars, rtVars, chVars, upVars, ssVars, rqVars, trVars, moreVars, smu, installed>>

\* cb.mu.Lock() of Failures returns
LkHealthLock ==
    /\ thr["h"].pc = "h.failurespend"
    /\ CanLock(bmu[thr["h"].tok], "h")
    /\ bmu' = [bmu EXCEPT ![thr["h"].tok] = Lock(@, "h")]
    /\ thr' = [thr EXCEPT !["h"].pc = "h.failures.in"]
    /\ UNCHANGED <<now, cbVars, rtVars, chVars, upVars, ssVars, rqVars, trVars, moreVars, smu, installed>>

\* Failures returns: the deferred cb.mu.Unlock()
LkHealthUnlock ==
    /\ thr["h"].pc = "h.failures.in"
    /\ bmu' = [bmu EXCEPT ![thr["h"].tok] = Unlock(@, "h")]
    /\ thr' = [thr EXCEPT !["h"].pc = "h.details"]
    /\ UNCHANGED <<now, cbVars, rtVars, chVars, upVars, ssVars, rqVars, trVars, moreVars, smu, installed>>

(***************************************************************************)
(* handleMemory: GET reads s.memory under the read lock ("g.rlock",        *)
(* "g.read"), PUT writes it under the write lock ("p.lock", "p.lockpend",  *)
(* "p.write").                                                             *)
(***************************************************************************)
LkMemArrive ==
    /\ thr["m"].pc = "idle"
    /\ \E first \in {"g.rlock", "p.lock"} :
          thr' = [thr EXCEPT !["m"] = [IdleThread EXCEPT !.pc = first]]
    /\ UNCHANGED <<now, cbVars, rtVars, chVars, upVars, ssVars, rqVars, trVars, moreVars, smu, bmu, installed>>

LkMemRLock ==
    /\ thr["m"].pc = "g.rlock"
    /\ CanRLock(smu)
    /\ smu' = RLock(smu, "m")
    /\ thr' = [thr EXCEPT !["m"].pc = "g.read"]
    /\ UNCHANGED <<now, cbVars, rtVars, chVars, upVars, ssVars, rqVars, trVars, moreVars, bmu, installed>>

LkMemRUnlock ==
    /\ thr["m"].pc = "g.read"
    /\ smu' = RUnlock(smu, "m")
    /\ thr' = [thr EXCEPT !["m"] = IdleThread]
    /\ UNCHANGED <<now, cbVars, rtVars, chVars, upVars, ssVars, rqVars, trVars, moreVars, bmu, installed>>

LkMemAnnounce ==
    /\ thr["m"].pc = "p.lock"
    /\ CanAnnounce(smu)
    /\ smu' = Announce(smu, "m")
    /\ thr' = [thr EXCEPT !["m"].pc = "p.lockpend"]
    /\ UNCHANGED <<now, cbVars, rtVars, chVars, upVars, ssVars, rqVars, trVars, moreVars, bmu, installed>>

LkMemLock ==
    /\ thr["m"].pc = "p.lockpend"
    /\ CanLock(smu, "m")
    /\ smu' = Lock(smu, "m")
    /\ thr' = [thr EXCEPT !["m"].pc = "p.write"]
    /\ UNCHANGED <<now, cbVars, rtVars, chVars, upVars, ssVars, rqVars, trVars, moreVars, bmu, installed>>

LkMemUnlock ==
    /\ thr["m"].pc = "p.write"
    /\ smu' = Unlock(smu, "m")
    /\ thr' = [thr EXCEPT !["m"] = IdleThread]
    /\ UNCHANGED <<now, cbVars, rtVars, chVars, upVars, ssVars, rqVars, trVars, moreVars, bmu, installed>>

LkNext ==
    \/ \E t \in LkChatThreads : LkChatArrive(t)
    \/ \E t \in LkChatThreads : LkChatRLock(t)
    \/ \E t \in LkChatThreads : LkChatResolve(t)
    \/ \E t \in LkChatThreads : LkChatAnnounce(t)
    \/ \E t \in LkChatThreads : LkChatLock(t)
    \/ \E t \in LkChatThreads : LkChatInstall(t)
    \/ \E t \in LkChatThreads : LkChatRetry(t)
    \/ \E t \in LkChatThreads : LkDoAnnounce(t)
    \/ \E t \in LkChatThreads : LkDoLock(t)
    \/ \E t \in LkChatThreads : LkDoAdmit(t)
    \/ \E t \in LkChatThreads : LkFnReturn(t)
    \/ \E t \in LkChatThreads : LkDoRecord(t)
    \/ \E t \in LkChatThreads : LkChatRespond(t)
    \/ LkHealthArrive
    \/ LkHealthRLock
    \/ LkHealthRange
    \/ LkHealthBreakerRLock
    \/ LkHealthBreakerRUnlock
    \/ LkHealthAnnounce
    \/ LkHealthLock
    \/ LkHealthUnlock
    \/ LkMemArrive
    \/ LkMemRLock
    \/ LkMemRUnlock
    \/ LkMemAnnounce
    \/ LkMemLock
    \/ LkMemUnlock

SpecLock == LkInit /\ [][LkNext]_vars

(***************************************************************************)
(* SpecRace: two connections send chat requests with session ids at the    *)
(* same time; connection c1 sends the user message "p1", c2 sends "p2".    *)
(***************************************************************************)
RaceClients == {"c1", "c2"}

RacePrompt(c) == IF c = "c1" THEN "p1" ELSE "p2"

RaceInit ==
    /\ now = 0
    /\ CBIdle
    /\ RtIdle
    /\ ChIdle
    /\ UpIdle
    /\ RestIdle
    /\ \E f \in {NoFile} \cup { File(stored(n)) : n \in StoredLens } :
          store = [k \in SessionKeys |-> IF k = <<"m1", "x">> THEN f ELSE File(stored(1))]
    /\ memory \in {"", "mem"}
    /\ sess = [c \in RaceClients |-> IdleSess]
    /\ served = 0

\* a request arrives: decoding, model lookup, then the outgoing messages
\* and the user prompt
RaceReceive(c) ==
    /\ sess[c].pc = "idle"
    /\ served < MaxRaceServed
    /\ served' = served + 1
    /\ \E sid \in SessionIds :
          LET msgs == <<Message("user", RacePrompt(c))>>
          IN  sess' = [sess EXCEPT ![c] =
                         [IdleSess EXCEPT !.pc = "composed", !.sid = sid, !.model = "m1",
                                          !.msgs = msgs,
                                          !.out = composeMessages(memory, store, sid, "m1", msgs),
                                          !.userPrompt = userPrompt(msgs)]]
    /\ UNCHANGED <<restVars, now, cbVars, rtVars, chVars, upVars, store, memory>>

RaceNext ==
    \/ \E c \in RaceClients : RaceReceive(c)
    \/ \E c \in RaceClients : SessCallReturn(c)
    \/ \E c \in RaceClients : SessFail(c)
    \/ \E c \in RaceClients : SessLoad(c)
    \/ \E c \in RaceClients : SessSave(c)
    \/ \E c \in RaceClients : SessClose(c)

SpecRace == RaceInit /\ [][RaceNext]_vars

(***************************************************************************)
(* SpecLegacy: the chat handler of sigoREST/main.go, with its counted      *)
(* retry loop over the legacy CircuitBreaker, for two concurrent requests  *)
(* on one model.                                                           *)
(***************************************************************************)
\* time.Since(cb.lastFail) > cb.timeout
lastFailExpired(b, t) ==
    ~b.lastFail.valid \/ t - b.lastFail.t > b.timeout

\* CircuitBreaker.Do up to the call of fn: the breaker after the reset of an
\* expired count and the rejection Do returns (NoErr when fn is going to run)
legacyDoEnter(b, t) ==
    LET b1 == IF lastFailExpired(b, t) THEN [b EXCEPT !.failures = 0] ELSE b
    IN  [cb |-> b1,
         err |-> IF b1.failures >= b1.threshold THEN ErrOpenRejected ELSE NoErr]

\* variant: only retryable errors are counted
legacyDoComplete_RetryableOnly(b, t, err) ==
    IF err # NoErr
    THEN IF IsRetryable(ClassifyError(err))
         THEN [b EXCEPT !.failures = @ + 1, !.lastFail = TimeAt(t)]
         ELSE b
    ELSE [b EXCEPT !.failures = 0]

\* CircuitBreaker.Do after fn returned err
legacyDoComplete(b, t, err) ==
    IF err # NoErr
    THEN [b EXCEPT !.failures = @ + 1, !.lastFail = TimeAt(t)]
    ELSE [b EXCEPT !.failures = 0]

\* variant: the mutex is released before fn is called
legacyHolder_Released(c) ==
    ""

\* the holder of cb.mu while fn of caller c executes: the deferred Unlock
\* runs when Do returns
legacyHolder(c) ==
    c

\* answers of the upstream to a call of the legacy handler
LgReplies ==
    { Reply("http", 200, 0, "openai"),
      Reply("http", 500, 0, "body"),
      Reply("http", 400, 0, "body") }

\* retries of the request body; 0 is also what a missing field decodes to
LgRetries == {0, 1, 2}

LgInit ==
    /\ now = 0
    /\ CBIdle
    /\ RtIdle
    /\ ChIdle
    /\ UpIdle
    /\ SsIdle
    /\ RqIdle
    /\ LkIdle
    /\ TrIdle
    /\ PmIdle
    /\ LgIdle

\* a request arrives; the loop starts with i = 0
LgReceive(c) ==
    /\ lreq[c].pc = "idle"
    /\ \E retries \in LgRetries :
          lreq' = [lreq EXCEPT ![c] = [IdleLegacy EXCEPT !.pc = "loop",
                                                       !.Retries = defaultRetries(retries)]]
    /\ UNCHANGED <<now, cbVars, rtVars, chVars, upVars, ssVars, rqVars, lkVars, trVars, pmVars,
                   lcb, lmu>>

\* for i := 0; i < req.Retries; i++
LgLoop(c) ==
    /\ lreq[c].pc = "loop"
    /\ lreq' = [lreq EXCEPT ![c].pc = IF lreq[c].i < lreq[c].Retries THEN "lock" ELSE "after"]
    /\ UNCHANGED <<now, cbVars, rtVars, chVars, upVars, ssVars, rqVars, lkVars, trVars, pmVars,
                   lcb, lmu>>

\* the handler after Do returned err # nil: lastErr = err, then the sleep
\* unless this was the last iteration
LgAfterError(r, err, rejected) ==
    [r EXCEPT !.lastErr = err,
              !.rejected = rejected,
              !.pc = IF r.i < r.Retries - 1 THEN "sleep" ELSE "loop",
              !.i = IF r.i < r.Retries - 1 THEN r.i ELSE r.i + 1]

\* cb.mu.Lock() of Do returns; the expired count is reset; Do rejects, or
\* calls fn with the mutex held
LgDoEnter(c) ==
    /\ lreq[c].pc = "lock"
    /\ lmu = ""
    /\ LET r == legacyDoEnter(lcb, now)
       IN  /\ lcb' = r.cb
           /\ IF r.err # NoErr
              THEN /\ lmu' = ""
                   /\ lreq' = [lreq EXCEPT ![c] = LgAfterError(lreq[c], r.err, TRUE)]
              ELSE /\ lmu' = legacyHolder(c)
                   /\ lreq' = [lreq EXCEPT ![c].pc = "fn", ![c].rejected = FALSE]
    /\ UNCHANGED <<now, cbVars, rtVars, chVars, upVars, ssVars, rqVars, lkVars, trVars, pmVars>>

\* CallAPI returns; Do counts the outcome and unlocks; the handler breaks
\* out of the loop on success
LgFnReturn(c) ==
    /\ lreq[c].pc = "fn"
    /\ \E reply \in LgReplies :
          LET res == CallAPI("", reply)
          IN  /\ lcb' = legacyDoComplete(lcb, now, res.err)
              /\ lreq' = IF res.err = NoErr
                         THEN [lreq EXCEPT ![c].responseText = res.text,
                                           ![c].succeeded = TRUE,
                                           ![c].pc = "after"]
                         ELSE [lreq EXCEPT ![c] = LgAfterError(lreq[c], res.err, FALSE)]
    /\ lmu' = IF lmu = c THEN "" ELSE lmu
    /\ UNCHANGED <<now, cbVars, rtVars, chVars, upVars, ssVars, rqVars, lkVars, trVars, pmVars>>

\* time.Sleep returns; i++
LgWake(c) ==
    /\ lreq[c].pc = "sleep"
    /\ lreq' = [lreq EXCEPT ![c].pc = "loop", ![c].i = @ + 1]
    /\ UNCHANGED <<now, cbVars, rtVars, chVars, upVars, ssVars, rqVars, lkVars, trVars, pmVars,
                   lcb, lmu>>

\* behind the loop: the error envelope if lastErr is set, else the session
\* is saved and the 200 response written
LgRespond(c) ==
    /\ lreq[c].pc = "after"
    /\ lreq' = IF lreq[c].lastErr # NoErr
               THEN [lreq EXCEPT ![c].pc = "responded",
                                 ![c].resp = Response(502, "api_error", 0)]
               ELSE [lreq EXCEPT ![c].pc = "responded",
                                 ![c].saved = TRUE,
                                 ![c].resp = Response(200, "chat.completion", 0)]
    /\ UNCHANGED <<now, cbVars, rtVars, chVars, upVars, ssVars, rqVars, lkVars, trVars, pmVars,
                   lcb, lmu>>

\* the handler returns
LgClose(c) ==
    /\ lreq[c].pc = "responded"
    /\ lreq' = [lreq EXCEPT ![c] = IdleLegacy]
    /\ UNCHANGED <<now, cbVars, rtVars, chVars, upVars, ssVars, rqVars, lkVars, trVars, pmVars,
                   lcb, lmu>>

LgTick ==
    /\ now < MaxLegacyTime
    /\ now' = now + 1
    /\ UNCHANGED <<cbVars, rtVars, chVars, upVars, ssVars, restVars>>

LgNext ==
    \/ \E c \in LgCallers : LgReceive(c)
    \/ \E c \in LgCallers : LgLoop(c)
    \/ \E c \in LgCallers : LgDoEnter(c)
    \/ \E c \in LgCallers : LgFnReturn(c)
    \/ \E c \in LgCallers : LgWake(c)
    \/ \E c \in LgCallers : LgRespond(c)
    \/ \E c \in LgCallers : LgClose(c)
    \/ LgTick

SpecLegacy == LgInit /\ [][LgNext]_vars

(***************************************************************************)
(* SpecMem: handleMemory for three connections that send PUT and GET       *)
(* requests at once.  Server.mu is smu; memory is Server.memory.           *)
(***************************************************************************)
PutBodies == {"A", "B"}

PmInit ==
    /\ now = 0
    /\ CBIdle
    /\ RtIdle
    /\ ChIdle
    /\ UpIdle
    /\ SsIdle
    /\ RqIdle
    /\ LkIdle
    /\ TrIdle
    /\ LgIdle
    /\ PmIdle

\* a PUT arrives: the body is decoded, or 400 invalid_request
PmPutArrive(t) ==
    /\ put[t].pc = "idle"
    /\ \/ \E mem \in PutBodies :
             put' = [put EXCEPT ![t] = [method |-> "PUT", pc |-> "lock", mem |-> mem,
                                        status |-> 0]]
       \/ put' = [put EXCEPT ![t] = [method |-> "PUT", pc |-> "responded", mem |-> "",
                                     status |-> 400]]
    /\ UNCHANGED <<now, cbVars, rtVars, chVars, upVars, ssVars, rqVars, lkVars, trVars,
                   lgVars, disk, puts>>

\* s.mu.Lock() announces itself
PmAnnounce(t) ==
    /\ put[t].pc = "lock"
    /\ CanAnnounce(smu)
    /\ smu' = Announce(smu, t)
    /\ put' = [put EXCEPT ![t].pc = "lockpend"]
    /\ UNCHANGED <<now, cbVars, rtVars, chVars, upVars, ssVars, rqVars, bmu, installed, thr,
                   trVars, lgVars, disk, puts>>

\* s.mu.Lock() returns
PmLock(t) ==
    /\ put[t].pc = "lockpend"
    /\ CanLock(smu, t)
    /\ smu' = Lock(smu, t)
    /\ put' = [put EXCEPT ![t].pc = "locked"]
    /\ UNCHANGED <<now, cbVars, rtVars, chVars, upVars, ssVars, rqVars, bmu, installed, thr,
                   trVars, lgVars, disk, puts>>

\* s.memory = mem; s.mu.Unlock()
PmStore(t) ==
    /\ put[t].pc = "locked"
    /\ memory' = put[t].mem
    /\ smu' = Unlock(smu, t)
    /\ put' = [put EXCEPT ![t].pc = "write"]
    /\ UNCHANGED <<now, cbVars, rtVars, chVars, upVars, store, sess, served, rqVars, bmu,
                   installed, thr, trVars, lgVars, disk, puts>>

\* os.WriteFile("./memory.json", data, 0644) succeeds, or fails and is logged
PmWrite(t) ==
    /\ put[t].pc = "write"
    /\ \/ /\ disk' = put[t].mem
          /\ UNCHANGED puts
       \/ /\ puts' = [puts EXCEPT !.writeFailed = TRUE]
          /\ UNCHANGED disk
    /\ put' = [put EXCEPT ![t].pc = "respond"]
    /\ UNCHANGED <<now, cbVars, rtVars, chVars, upVars, ssVars, rqVars, lkVars, trVars,
                   lgVars>>

\* a GET arrives
PmGetArrive(t) ==
    /\ put[t].pc = "idle"
    /\ put' = [put EXCEPT ![t] = [method |-> "GET", pc |-> "rlock", mem |-> "", status |-> 0]]
    /\ UNCHANGED <<now, cbVars, rtVars, chVars, upVars, ssVars, rqVars, lkVars, trVars,
                   lgVars, disk, puts>>

\* s.mu.RLock() returns
PmRLock(t) ==
    /\ put[t].pc = "rlock"
    /\ CanRLock(smu)
    /\ smu' = RLock(smu, t)
    /\ put' = [put EXCEPT ![t].pc = "read"]
    /\ UNCHANGED <<now, cbVars, rtVars, chVars, upVars, ssVars, rqVars, bmu, installed, thr,
                   trVars, lgVars, disk, puts>>

\* mem := s.memory; s.mu.RUnlock()
PmRead(t) ==
    /\ put[t].pc = "read"
    /\ smu' = RUnlock(smu, t)
    /\ put' = [put EXCEPT ![t].pc = "respond", ![t].mem = memory]
    /\ UNCHANGED <<now, cbVars, rtVars, chVars, upVars, ssVars, rqVars, bmu, installed, thr,
                   trVars, lgVars, disk, puts>>

\* json.NewEncoder(w).Encode(mem)
PmRespond(t) ==
    /\ put[t].pc = "respond"
    /\ put' = [put EXCEPT ![t].pc = "responded", ![t].status = 200]
    /\ puts' = IF put[t].method = "PUT" THEN [puts EXCEPT !.answered = TRUE] ELSE puts
    /\ UNCHANGED <<now, cbVars, rtVars, chVars, upVars, ssVars, rqVars, lkVars, trVars,
                   lgVars, disk>>

\* the handler returns
PmClose(t) ==
    /\ put[t].pc = "responded"
    /\ put' = [put EXCEPT ![t] = IdlePut]
    /\ UNCHANGED <<now, cbVars, rtVars, chVars, upVars, ssVars, rqVars, lkVars, trVars,
                   lgVars, disk, puts>>

PmNext ==
    \/ \E t \in PmThreads : PmPutArrive(t)
    \/ \E t \in PmThreads : PmAnnounce(t)
    \/ \E t \in PmThreads : PmLock(t)
    \/ \E t \in PmThreads : PmStore(t)
    \/ \E t \in PmThreads : PmWrite(t)
    \/ \E t \in PmThreads : PmGetArrive(t)
    \/ \E t \in PmThreads : PmRLock(t)
    \/ \E t \in PmThreads : PmRead(t)
    \/ \E t \in PmThreads : PmRespond(t)
    \/ \E t \in PmThreads : PmClose(t)

SpecMem == PmInit /\ [][PmNext]_vars

(***************************************************************************)
(* Steps of SpecCB as seen from the state.                                 *)
(***************************************************************************)
\* caller c is admitted by Do in this step: fn starts to execute
Admitted(c) == pc[c] = "idle" /\ pc'[c] = "running"
\* caller c is rejected by Do in this step
Rejected(c) == pc[c] = "idle" /\ pc'[c] = "done"
\* fn of caller c returns in this step and Do does its bookkeeping
Completed(c) == pc[c] = "running" /\ pc'[c] = "done"

\* timestamps of b that lie inside the window ending at t
failuresInWindow(b, c, t) ==
    Cardinality({i \in 1 .. Len(b.failures) : b.failures[i] > t - c.Window})

(***************************************************************************)
(* C1: a Closed breaker always holds fewer than threshold failures, and    *)
(* the step that records the failure bringing the count to the threshold   *)
(* while the breaker is not Open sets state = Open and                     *)
(* last_state_change = now in that same step.                              *)
(***************************************************************************)
C1_ClosedBelowThreshold ==
    /\ [](cb.state = CBStateClosed => Len(cb.failures) < cfg.Threshold)
    /\ [][(/\ Len(cb'.failures) > Len(cb.failures)
           /\ Len(cb'.failures) >= cfg.Threshold
           /\ cb.state # CBStateOpen)
          => cb'.state = CBStateOpen /\ cb'.lastStateChange = now]_vars

C1_Witness ==
    /\ cb.state = CBStateOpen
    /\ Len(cb.failures) = cfg.Threshold
    /\ cfg.Threshold = MaxThreshold
    /\ cb.lastStateChange = now
    /\ now > 0
    /\ \E c, d \in Callers : pc[c] = "done" /\ ret[c] # NoErr /\ pc[d] = "running"

(***************************************************************************)
(* C2: from an Open breaker whose cooldown has not elapsed no call starts  *)
(* fn; a call arriving then returns CircuitOpen and leaves the breaker     *)
(* unchanged; calls in flight that complete while the breaker is Open      *)
(* leave it Open with the same last_state_change.                          *)
(***************************************************************************)
C2_OpenRejects ==
    [][/\ (cb.state = CBStateOpen /\ now - cb.lastStateChange < cfg.Cooldown)
          => \A c \in Callers :
                /\ ~Admitted(c)
                /\ Rejected(c) => ret'[c].kind = ErrCircuitOpen /\ cb' = cb
       /\ \A c \in Callers :
            (cb.state = CBStateOpen /\ Completed(c))
            => cb'.state = CBStateOpen /\ cb'.lastStateChange = cb.lastStateChange]_vars

C2_Witness ==
    /\ cb.state = CBStateOpen
    /\ now - cb.lastStateChange < cfg.Cooldown
    /\ Len(cb.failures) > 0
    /\ cb.failures[Len(cb.failures)] > cb.lastStateChange
    /\ \E c \in Callers : pc[c] = "done" /\ ret[c] = ErrOpenRejected

(***************************************************************************)
(* C3: within one HalfOpen period at most half_open_max calls are          *)
(* admitted; every further call of the period is rejected with             *)
(* CircuitOpen and fn is not executed.                                     *)
(***************************************************************************)
C3_HalfOpenBound ==
    /\ [](cb.state = CBStateHalfOpen => hoAdmits <= cfg.HalfOpenMax)
    /\ [][(cb.state = CBStateHalfOpen /\ hoAdmits >= cfg.HalfOpenMax)
          => \A c \in Callers :
                /\ ~Admitted(c)
                /\ Rejected(c) => ret'[c].kind = ErrCircuitOpen]_vars

C3_Witness ==
    /\ cb.state = CBStateHalfOpen
    /\ cfg.HalfOpenMax = MaxHalfOpen
    /\ hoAdmits = cfg.HalfOpenMax
    /\ \E c \in Callers : pc[c] = "done" /\ ret[c] = ErrHalfOpenRejected

C6_NonRetryableIgnored ==
    /\ [](\A e \in WorkOutcomes :
            (e # NoErr /\ NonRetryableKind(e)) => DoComplete(cb, cfg, now, e) = cb)
    /\ [][\A c \in Callers :
           /\ (Completed(c) /\ ret'[c] # NoErr /\ NonRetryableKind(ret'[c]))
              => cb' = cb
           /\ (Admitted(c) /\ cb.state = CBStateClosed)
              => /\ cb'.state = CBStateClosed
                 /\ cb'.lastStateChange = cb.lastStateChange]_vars

C6_Witness ==
    /\ cb.state = CBStateClosed
    /\ cfg.Threshold = 2
    /\ Len(cb.failures) = 1
    /\ \E c, d \in Callers :
        /\ c # d
        /\ pc[c] = "done" /\ ret[c] = APIError(ErrClientError, 400, 0, "body")
        /\ pc[d] = "done" /\ ret[d] = APIError(ErrClientError, 400, 0, "body")
(***************************************************************************)
(* The local backoff schedule: the backoff in force at attempt k.          *)
(***************************************************************************)
RECURSIVE Schedule(_, _)
Schedule(k, rc) ==
    IF k = 0 THEN rc.InitialBackoff
    ELSE LET prev == Schedule(k - 1, rc)
             grown == (prev * rc.BackoffFactor10) \div 10
         IN  IF grown < rc.MaxBackoff THEN grown ELSE rc.MaxBackoff

(***************************************************************************)
(* C7: RetryWithBackoff invokes the work closure at most max_retries + 1   *)
(* times (not at all when max_retries is negative), never again after a    *)
(* success, and after the final attempt it returns what that attempt       *)
(* returned without starting another wait.                                 *)
(***************************************************************************)
C7_AtMostMaxRetriesPlusOne ==
    /\ Len(outs) <= (IF rcfg.MaxRetries >= 0 THEN rcfg.MaxRetries + 1 ELSE 0)
    /\ \A i \in 1 .. Len(outs) - 1 : outs[i] # NoErr
    /\ (Len(outs) > 0 /\ outs[Len(outs)] = NoErr)
       => rt.pc = "done" /\ rt.result = NoErr
    /\ (rcfg.MaxRetries >= 0 /\ Len(outs) = rcfg.MaxRetries + 1)
       => /\ rt.pc = "done"
          /\ rt.result = outs[Len(outs)]
          /\ Len(waits) = rcfg.MaxRetries

C7_Witness ==
    /\ rt.pc = "done"
    /\ rcfg.MaxRetries = MaxRetriesTop
    /\ Len(outs) = rcfg.MaxRetries + 1
    /\ rt.result = APIError(ErrServerError, 500, 0, "body")
    /\ Len(waits) = rcfg.MaxRetries

(***************************************************************************)
(* C8: an invocation of the work closure that returns a non-retryable      *)
(* error is the last one: RetryWithBackoff returns that error at once,     *)
(* without a wait; on the first attempt the closure has run exactly once.  *)
(***************************************************************************)
C8_NonRetryableReturnsAtOnce ==
    \A i \in 1 .. Len(outs) :
        (outs[i] # NoErr /\ NonRetryableKind(outs[i]))
        => /\ i = Len(outs)
           /\ rt.pc = "done"
           /\ rt.result = outs[i]
           /\ Len(waits) = i - 1

C8_Witness ==
    /\ rt.pc = "done"
    /\ rcfg.MaxRetries >= 1
    /\ outs = <<ErrOpenRejected>>
    /\ rt.result = ErrOpenRejected
    /\ waits = <<>>

(***************************************************************************)
(* C10: the wait after a RateLimit failure with retry_after > 0 is         *)
(* exactly retry_after; every other wait is the local backoff; the local   *)
(* backoff advances on every iteration, overridden or not.                 *)
(***************************************************************************)
C10_RetryAfterOverridesOnce ==
    /\ \A i \in 1 .. Len(waits) :
        LET e == ClassifyError(waits[i].cause)
        IN  waits[i].sleep = IF e.kind = ErrRateLimit /\ e.retryAfter > 0
                             THEN e.retryAfter
                             ELSE Schedule(i - 1, rcfg)
    /\ rt.pc # "done" => rt.backoff = Schedule(rt.attempt, rcfg)

C10_Witness ==
    /\ rcfg = RetryConfig(2, 500, 5000, 20)
    /\ Len(waits) = 2
    /\ waits[1].cause = APIError(ErrRateLimit, 429, 2000, "body")
    /\ waits[1].sleep = 2000
    /\ waits[2].sleep = 1000
(***************************************************************************)
(* Steps and observations of SpecChat.                                     *)
(***************************************************************************)
\* number of logged failures of model token m inside the window ending now
recentFailures(m) ==
    Cardinality({i \in 1 .. Len(flog[m]) : flog[m][i] > now - ChatCBConfig.Window})

\* request c calls breaker.Do in this step
CallsBreaker(c) ==
    /\ chat[c].pc = "retry"
    /\ chat[c].rt.pc = "loop"
    /\ chat[c].rt.attempt <= chat[c].retries
    /\ chat'[c].aborted = chat[c].aborted
    /\ chat'[c] # chat[c]

CancelledInWait(c) ==
    /\ chat[c].pc = "retry"
    /\ chat[c].rt.pc = "wait"
    /\ now < chat[c].wakeAt
    /\ ~chat[c].aborted
    /\ chat'[c].aborted

C11_CancelDuringBackoff ==
    /\ [][\A c \in Clients :
            /\ CancelledInWait(c)
               => /\ chat'[c].rt.pc = "done"
                  /\ ClassifyError(chat'[c].rt.result).kind = ErrTimeout
                  /\ chat'[c].rt.attempt = chat[c].rt.attempt
                  /\ chat'[c].pc = "retry"
            /\ (chat[c].pc = "retry" /\ chat[c].rt.pc = "done")
               => /\ chat'[c].pc \in {"retry", "responded"}
                  /\ chat'[c].rt = chat[c].rt]_vars
    /\ [](\A c \in Clients :
            (chat[c].pc = "responded" /\ chat[c].rt.result = ErrRetryCancelled)
            => chat[c].resp = Response(504, "timeout", 0))

C11_Witness ==
    \E c \in Clients :
        /\ chat[c].pc = "responded"
        /\ chat[c].aborted
        /\ chat[c].rt.result = ErrRetryCancelled
        /\ chat[c].rt.attempt = 0 /\ chat[c].retries = 3
        /\ chat[c].wakeAt > now
        /\ chat[c].resp = Response(504, "timeout", 0)

(***************************************************************************)
(* C12: a transport failure of CallAPI whose text contains "timeout" or    *)
(* "deadline exceeded" is classified as TIMEOUT and retryable, so that the *)
(* breaker records it, the retry loop waits for another attempt (unless it *)
(* was the last one), and as the final error it is answered 504 / timeout. *)
(***************************************************************************)
TransportTimeout(err) ==
    err.form = "sigo" /\ ContainsTimeoutText(err.cause)

C12_Original ==
    \A c \in Clients :
        (chat[c].pc \in {"retry", "responded"} /\ TransportTimeout(chat[c].rt.err))
        => /\ ClassifyError(chat[c].rt.err).kind = ErrTimeout
           /\ IsRetryable(ClassifyError(chat[c].rt.err))
           /\ Len(breakers[chat[c].model].failures) > 0
           /\ chat[c].rt.attempt < chat[c].retries => chat[c].rt.pc # "done"
           /\ chat[c].pc = "responded" => chat[c].resp = Response(504, "timeout", 0)

(***************************************************************************)
(* C13: the status and the type of the error response follow from the kind *)
(* of the final classified error: RATE_LIMIT 429 rate_limit, AUTH_FAILED   *)
(* 401 auth_failed, TIMEOUT 504 timeout, SERVER_ERROR 503 server_error,    *)
(* CLIENT_ERROR 400 client_error, CIRCUIT_OPEN 503 circuit_open, any other *)
(* kind 502 api_error; a RATE_LIMIT error with retry_after > 0 gives a     *)
(* Retry-After header with that number of seconds, and no other response   *)
(* has the header.                                                         *)
(***************************************************************************)
C13_StatusByKind ==
    (up.pc = "responded" /\ rt.result # NoErr)
    => LET e == ClassifyError(rt.result)
           k == e.kind
       IN  /\ up.resp.status =
                 CASE k = ErrRateLimit -> 429
                   [] k = ErrAuthFailed -> 401
                   [] k = ErrTimeout -> 504
                   [] k = ErrServerError -> 503
                   [] k = ErrClientError -> 400
                   [] k = ErrCircuitOpen -> 503
                   [] OTHER -> 502
           /\ up.resp.type =
                 CASE k = ErrRateLimit -> "rate_limit"
                   [] k = ErrAuthFailed -> "auth_failed"
                   [] k = ErrTimeout -> "timeout"
                   [] k = ErrServerError -> "server_error"
                   [] k = ErrClientError -> "client_error"
                   [] k = ErrCircuitOpen -> "circuit_open"
                   [] OTHER -> "api_error"
           /\ (k = ErrRateLimit /\ e.retryAfter > 0)
              => up.resp.retryAfterSec * 1000 = e.retryAfter
           /\ ~(k = ErrRateLimit /\ e.retryAfter > 0) => up.resp.retryAfterSec = 0
           /\ (up.origin = "call" /\ up.reply.status = 429)
              => up.resp = Response(429, "rate_limit", up.reply.retryAfterSec)

C13_Witness ==
    /\ up.pc = "responded"
    /\ up.origin = "call"
    /\ up.reply = Reply("http", 429, 2, "body")
    /\ rt.attempt = 1 /\ rcfg.MaxRetries = 1
    /\ up.resp = Response(429, "rate_limit", 2)

(***************************************************************************)
(* C14: classifyHTTPError gives every status from 400 on exactly the kind  *)
(* of the first matching rule: 429 RATE_LIMIT; 401, 403 AUTH_FAILED; 408,  *)
(* 504 TIMEOUT; other >= 500 SERVER_ERROR; other >= 400 CLIENT_ERROR (a    *)
(* status below 400 other than 200 falls through to API_FAILED); and the   *)
(* error CallAPI returns for a non-200 answer carries the status, the body *)
(* as message and the Retry-After seconds of the answer.                   *)
(***************************************************************************)
C14_KindOfStatus(st) ==
    CASE st = 429 -> ErrRateLimit
      [] st \in {401, 403} -> ErrAuthFailed
      [] st \in {408, 504} -> ErrTimeout
      [] st >= 500 /\ st \notin {504} -> ErrServerError
      [] st >= 400 /\ st < 500 /\ st \notin {401, 403, 408, 429} -> ErrClientError
      [] OTHER -> ErrAPIFailed

C14_ClassifyHTTP ==
    /\ \A st \in 100 .. 599 :
          st # 200 => LET e == classifyHTTPError(st, up.reply.body)
                      IN  /\ e.form = "api"
                          /\ e.kind = C14_KindOfStatus(st)
                          /\ e.status = st
                          /\ e.msg = up.reply.body
    /\ (up.origin = "call" /\ up.reply.kind = "http" /\ up.reply.status # 200)
       => /\ up.callErr.form = "api"
          /\ up.callErr.kind = C14_KindOfStatus(up.reply.status)
          /\ up.callErr.status = up.reply.status
          /\ up.callErr.msg = up.reply.body
          /\ up.callErr.retryAfter = up.reply.retryAfterSec * 1000

C14_Witness ==
    /\ up.origin = "call"
    /\ up.reply = Reply("http", 504, 2, "body")
    /\ up.callErr.kind = ErrTimeout
    /\ up.callErr.status = 504
    /\ up.callErr.retryAfter = 2000
    /\ rt.pc = "wait"

(***************************************************************************)
(* C15: IsRetryable depends on the kind alone: it is true exactly for      *)
(* RATE_LIMIT, TIMEOUT and SERVER_ERROR, false for every other kind, known *)
(* or not, whatever the status, message, retry_after and cause; the        *)
(* breaker records a failure and the retry loop waits for another attempt  *)
(* exactly for these kinds.                                                *)
(***************************************************************************)
C15_Kinds ==
    { ErrConfigNotFound, ErrAPIKeyMissing, ErrAPIFailed, ErrCircuitOpen, ErrUnexpectedFormat,
      ErrRateLimit, ErrAuthFailed, ErrTimeout, ErrServerError, ErrClientError,
      "SOMETHING_ELSE", "" }

C15_RetryableByKindAlone ==
    /\ [](\A k \in C15_Kinds, st \in {0, 400, 500}, ra \in {0, 2000},
             m \in {"", "timeout"}, ca \in {"", "context deadline exceeded"} :
            LET e == [APIError(k, st, ra, m) EXCEPT !.cause = ca]
            IN  IsRetryable(e) <=> k \in {ErrRateLimit, ErrTimeout, ErrServerError})
    /\ [](up.callErr # NoErr
            => \A st \in {0, 400, 500}, ra \in {0, 2000} :
                 IsRetryable([ClassifyError(up.callErr) EXCEPT !.status = st, !.retryAfter = ra])
                 <=> ClassifyError(up.callErr).kind \in {ErrRateLimit, ErrTimeout, ErrServerError})
    /\ [][(up.pc = "upstream" /\ up'.pc = "retry" /\ up'.callErr # NoErr)
            => LET retryable == ClassifyError(up'.callErr).kind
                                  \in {ErrRateLimit, ErrTimeout, ErrServerError}
               IN  /\ Len(cb'.failures) = Len(cb.failures) + (IF retryable THEN 1 ELSE 0)
                   /\ rt'.pc = "wait" <=> (retryable /\ rt.attempt # rcfg.MaxRetries)]_vars

C15_Witness ==
    /\ up.origin = "call"
    /\ up.reply = Reply("http", 503, 0, "body")
    /\ rt.pc = "wait"
    /\ Len(cb.failures) = 1

(***************************************************************************)
(* C16: when the retry loop ends with an error that came out of an         *)
(* upstream call, the handler receives the very value CallAPI returned:    *)
(* breaker.Do and RetryWithBackoff hand it on unchanged, the classified    *)
(* error has its kind, status, message and retry_after, and ClassifyError  *)
(* returns an APIError unchanged and is idempotent.                        *)
(***************************************************************************)
C16_ErrorCarriedUnchanged ==
    /\ (rt.pc = "done" /\ up.origin = "call" /\ up.callErr # NoErr)
       => /\ up.doErr = up.callErr
          /\ rt.result = up.callErr
          /\ ClassifyError(rt.result).kind = up.callErr.kind
          /\ ClassifyError(rt.result).status = up.callErr.status
          /\ ClassifyError(rt.result).msg = up.callErr.msg
          /\ ClassifyError(rt.result).retryAfter = up.callErr.retryAfter
    /\ \A e \in {up.callErr, up.doErr, rt.result, rt.err} :
          e # NoErr => /\ ClassifyError(ClassifyError(e)) = ClassifyError(e)
                       /\ e.form = "api" => ClassifyError(e) = e

C16_Witness ==
    /\ up.pc = "responded"
    /\ up.origin = "call"
    /\ up.reply = Reply("http", 200, 0, "other")
    /\ up.callErr = NewError(ErrUnexpectedFormat, "Unexpected response format")
    /\ rt.result = up.callErr
    /\ up.resp = Response(502, "api_error", 0)

(***************************************************************************)
(* C17: every history a chat request writes to the session store has at    *)
(* most MaxHistory turns, however long the history on disk was: loading    *)
(* returns the file's history unshortened, every AddMessage leaves at most *)
(* MaxHistory turns, and so does the history handed to Save.               *)
(***************************************************************************)
C17_WrittenHistoryCapped ==
    /\ [](\A k \in SessionKeys :
            /\ store[k].exists => LoadSession(store, k[2], k[1]) = store[k].history
            /\ \A m \in ClientMessages :
                  /\ Len(AddMessage(store[k].history, m.role, m.content)) <= MaxHistory
                  /\ Len(AddMessage(AddMessage(store[k].history, m.role, m.content),
                                     "assistant", "answer")) <= MaxHistory)
    /\ [](\A c \in SessClients :
            sess[c].pc = "loaded" => Len(sess[c].session) <= MaxHistory)
    /\ [][\A k \in SessionKeys :
            store'[k] # store[k] => /\ store'[k].exists
                                    /\ Len(store'[k].history) <= MaxHistory]_vars

C17_Witness ==
    \E c \in SessClients :
        /\ sess[c].pc = "responded"
        /\ sess[c].resp.status = 200
        /\ sess[c].sid = "x"
        /\ Len(sess[c].out) >= MaxStored
        /\ Len(store[<<"m1", "x">>].history) = MaxHistory
        /\ store[<<"m1", "x">>].history = sess[c].session

(***************************************************************************)
(* C18: AddMessage keeps the most recent turns in order: the result is the *)
(* last min(MaxHistory, len + 1) elements of the history with the new turn *)
(* appended.  A successful request on a session holding MaxHistory turns   *)
(* writes the former turns 3 .. MaxHistory followed by the new user turn   *)
(* and the new assistant turn.                                             *)
(***************************************************************************)
C18_Last(h, n) ==
    [i \in 1 .. n |-> h[Len(h) - n + i]]

C18_Min(a, b) == IF a <= b THEN a ELSE b

C18_KeepsMostRecent ==
    /\ [](\A k \in SessionKeys, m \in ClientMessages :
            LET h == store[k].history
            IN  AddMessage(h, m.role, m.content)
                  = C18_Last(Append(h, m), C18_Min(MaxHistory, Len(h) + 1)))
    /\ [][\A c \in SessClients :
            /\ (sess[c].pc = "called" /\ sess'[c].pc = "loaded")
               => LET h == store[<<sess[c].model, sess[c].sid>>].history
                      u == Message("user", sess[c].userPrompt)
                      a == Message("assistant", sess[c].text)
                  IN  /\ sess'[c].session
                           = C18_Last(h \o <<u, a>>, C18_Min(MaxHistory, Len(h) + 2))
                      /\ Len(h) = MaxHistory
                         => sess'[c].session = SubSeq(h, 3, MaxHistory) \o <<u, a>>
            /\ (sess[c].pc = "loaded" /\ sess'[c].pc = "responded")
               => store'[<<sess[c].model, sess[c].sid>>].history = sess[c].session]_vars

C18_Witness ==
    \E c \in SessClients :
        /\ sess[c].pc = "responded"
        /\ sess[c].resp.status = 200
        /\ served = 1
        /\ Len(sess[c].out) = MaxHistory + 1
        /\ store[<<"m1", "x">>].history
             = SubSeq(stored(MaxHistory), 3, MaxHistory)
               \o <<Message("user", "p1"), Message("assistant", "answer")>>

(***************************************************************************)
(* C19: the session store changes only when a request succeeds: a request  *)
(* answered with an error envelope leaves every file as it is; a change of *)
(* the store is the save of a successful request with a session id and a   *)
(* non-empty last user message, touches only that session's file and       *)
(* appends the content of the last client message of role "user" and then  *)
(* the assistant text; a successful request without session id or without  *)
(* such a user message writes nothing.                                     *)
(***************************************************************************)
C19_LastUser(msgs) ==
    LET I == {i \in 1 .. Len(msgs) : msgs[i].role = "user"}
    IN  IF I = {} THEN ""
        ELSE msgs[CHOOSE i \in I : \A j \in I : j <= i].content

C19_IsSuffix(t, h) ==
    /\ Len(t) <= Len(h)
    /\ \A i \in 1 .. Len(t) : t[i] = h[Len(h) - Len(t) + i]

C19_StoreChangesOnlyOnSuccess ==
    /\ [][\A c \in SessClients :
            /\ (sess'[c].pc = "responded" /\ sess'[c].resp.status # 200) => store' = store
            /\ (sess[c].pc # "idle" /\ store' # store)
               => LET k == <<sess[c].model, sess[c].sid>>
                      new == store'[k].history
                  IN  /\ sess[c].err = NoErr
                      /\ sess[c].sid # ""
                      /\ C19_LastUser(sess[c].msgs) # ""
                      /\ \A j \in SessionKeys : j # k => store'[j] = store[j]
                      /\ store'[k].exists
                      /\ Len(new) >= 2
                      /\ new[Len(new) - 1] = Message("user", C19_LastUser(sess[c].msgs))
                      /\ new[Len(new)] = Message("assistant", sess[c].text)
                      /\ C19_IsSuffix(SubSeq(new, 1, Len(new) - 2), store[k].history)
                      /\ sess'[c].resp.status = 200]_vars
    /\ [][(\A c \in SessClients : sess[c].pc = "idle") => store' = store]_vars
    /\ [](\A c \in SessClients :
            (sess[c].pc = "responded" /\ sess[c].resp.status = 200)
            => IF sess[c].sid # "" /\ C19_LastUser(sess[c].msgs) # ""
               THEN LET h == store[<<sess[c].model, sess[c].sid>>].history
                    IN  /\ Len(h) >= 2
                        /\ h[Len(h) - 1] = Message("user", C19_LastUser(sess[c].msgs))
                        /\ h[Len(h)] = Message("assistant", sess[c].text)
               ELSE sess[c].session = <<>>)

C19_Witness ==
    \E c \in SessClients :
        /\ sess[c].pc = "responded"
        /\ sess[c].resp.status = 200
        /\ sess[c].msgs = <<Message("user", "p1"), Message("system", "sys")>>
        /\ served = 2
        /\ Len(store[<<"m1", "x">>].history) = 3
        /\ store[<<"m1", "x">>].history[2] = Message("user", "p1")
        /\ store[<<"m1", "x">>].history[3] = Message("assistant", "answer")

(***************************************************************************)
(* C20: the outgoing message list is the memory content as one system turn *)
(* (if non-empty, and then first), followed by the stored turns of the     *)
(* session in stored order (if the session id is non-empty), followed by   *)
(* all client messages in their order, system messages included: nothing   *)
(* is dropped, merged, duplicated or reordered.                            *)
(***************************************************************************)
C20_OutgoingMessages ==
    [][\A c \in SessClients :
        (sess[c].pc = "idle" /\ sess'[c].pc = "composed")
        => LET r == sess'[c]
               m == IF memory # "" THEN 1 ELSE 0
               h == IF r.sid # "" /\ store[<<r.model, r.sid>>].exists
                    THEN store[<<r.model, r.sid>>].history
                    ELSE <<>>
           IN  /\ Len(r.out) = m + Len(h) + Len(r.msgs)
               /\ memory # "" => r.out[1] = Message("system", memory)
               /\ \A i \in 1 .. Len(h) : r.out[m + i] = h[i]
               /\ \A i \in 1 .. Len(r.msgs) : r.out[m + Len(h) + i] = r.msgs[i]]_vars

C20_Witness ==
    \E c \in SessClients :
        /\ sess[c].pc = "composed"
        /\ memory = "mem"
        /\ sess[c].sid = "x"
        /\ sess[c].msgs = <<Message("system", "sys"), Message("user", "p1")>>
        /\ Len(sess[c].out) = 1 + MaxStored + 2
        /\ sess[c].out[1] = Message("system", "mem")
        /\ sess[c].out[MaxStored + 1].content = "t" \o ToString(MaxStored)
        /\ sess[c].out[MaxStored + 2] = Message("system", "sys")

(***************************************************************************)
(* C21: for every catalogue and every entry e in it, resolving the token   *)
(* e.Shortcode yields the entry e itself, as resolving e.ID does; the id   *)
(* map is tried first and the shortcodes only on a miss; and a token       *)
(* resolves to the same entry on every request.                            *)
(***************************************************************************)
C21_Original ==
    /\ \A i \in DOMAIN models :
          \A r \in resolved : r[1] \in {models[i].Shortcode, i} => r[2] = i
    /\ \A r \in resolved : r[1] \in DOMAIN models => r[2] = r[1]
    /\ \A r1, r2 \in resolved : r1[1] = r2[1] => r1[2] = r2[2]

(***************************************************************************)
(* C22: a request whose body has retries <= 0 runs with 3 retries, one     *)
(* whose body has timeout <= 0 runs with a budget of 180 s, and one whose  *)
(* body has max_tokens <= 0 for an entry with max_output_tokens > 0 runs   *)
(* with the entry's max_output_tokens.                                     *)
(***************************************************************************)
C22_Original ==
    req.pc = "composed" =>
        /\ req.body.retries <= 0 => req.run.retryConfig.MaxRetries = 3
        /\ req.body.timeout <= 0 => req.run.budget = 180
        /\ (req.body.max_tokens <= 0 /\ req.modelInfo.MaxOutputTokens > 0)
               => req.run.max_tokens = req.modelInfo.MaxOutputTokens

(***************************************************************************)
(* C23: the breakers of different model tokens are independent: a step of  *)
(* a request changes at most the breaker of the request's own token        *)
(* (state, failure list, half-open counter and last_state_change of every  *)
(* other breaker stay as they are), nothing else changes a breaker, and a  *)
(* request is rejected only by its own breaker: while the breaker of its   *)
(* token is Closed or not yet installed its call is admitted, whatever the *)
(* state of the other breakers.                                            *)
(***************************************************************************)
C23_TokenOf(c) == IF chat[c].pc = "idle" THEN chat'[c].model ELSE chat[c].model

C23_AttemptStep(c) ==
    /\ chat[c].pc = "retry"
    /\ chat[c].rt.pc = "loop"
    /\ chat'[c] # chat[c]

C23_BreakersIndependent ==
    [][/\ \A c \in MapClients :
            chat'[c] # chat[c] =>
                \A m \in MapTokens \ {C23_TokenOf(c)} : breakers'[m] = breakers[m]
       /\ breakers' # breakers => \E c \in MapClients : chat'[c] # chat[c]
       /\ \A c \in MapClients :
            (C23_AttemptStep(c) /\ breakers[chat[c].model].state \in {"none", CBStateClosed})
                => chat'[c].pc = "upstream"]_vars

C23_Witness ==
    \E c1, c2 \in MapClients :
        /\ chat[c1].model = "m1" /\ chat[c1].rejected
        /\ breakers["m1"].state = CBStateOpen
        /\ chat[c2].model = "m2" /\ chat[c2].pc = "upstream"
        /\ breakers["m2"].state = CBStateClosed

(***************************************************************************)
(* C24: per model token at most one breaker is ever installed, also when   *)
(* first requests for the token race: the lookup of a request installs a   *)
(* new breaker only where none is installed and otherwise leaves the map   *)
(* as it is, no step removes a breaker, and so the breaker of a token      *)
(* holds the failures recorded by all requests for that token.             *)
(***************************************************************************)
C24_LookupStep(c) == chat[c].pc = "breaker" /\ chat'[c].pc = "retry"

C24_OneBreakerPerToken ==
    /\ [](\A m \in MapTokens : breakers[m] # NoBreaker => breakers[m].failures = flog[m])
    /\ [][\A m \in MapTokens :
            /\ breakers[m] # NoBreaker => breakers'[m] # NoBreaker
            /\ \A c \in MapClients :
                  C24_LookupStep(c) =>
                      breakers'[m] = IF breakers[m] = NoBreaker /\ chat[c].model = m
                                     THEN NewEnhancedCircuitBreaker(now)
                                     ELSE breakers[m]]_vars

\* two requests that each made one failed call on a token that had no
\* breaker: both failures are in the one breaker
C24_Witness ==
    /\ \A c \in MapClients :
          /\ chat[c].model = "m1"
          /\ chat[c].pc = "retry" /\ chat[c].rt.pc = "wait" /\ chat[c].rt.attempt = 0
    /\ Len(breakers["m1"].failures) = 2

(***************************************************************************)
(* C25: locks are taken in the order server lock, then breaker mutex, and  *)
(* never the other way round: a thread that waits for Server.mu holds no   *)
(* breaker mutex; a chat thread inside breaker.Do or the upstream call     *)
(* holds Server.mu in no form; and chat, health and memory requests never  *)
(* deadlock on these locks: no thread waits, directly or through others,   *)
(* for itself, and every thread that is not waiting for a thread can take  *)
(* its next step.                                                          *)
(***************************************************************************)
C25_WaitsServer(t) ==
    thr[t].pc \in {"c.rlock", "c.lock", "c.lockpend", "h.rlock", "g.rlock", "p.lock", "p.lockpend"}

C25_HoldsBreaker(t) ==
    \E m \in LkTokens : bmu[m].writer = t \/ t \in bmu[m].readers

C25_InDo(t) ==
    thr[t].pc \in {"d.lock", "d.lockpend", "d.admit", "d.fn", "d.lock2", "d.lock2pend", "d.record"}

\* the threads that must act before t can go on
C25_Blockers(t) ==
    LET q == thr[t].pc
        b == IF thr[t].tok \in LkTokens THEN bmu[thr[t].tok] ELSE FreeMutex
    IN  IF q \in {"c.rlock", "h.rlock", "g.rlock", "c.lock", "p.lock"}
        THEN {smu.writer, smu.pending} \ {""}
        ELSE IF q \in {"c.lockpend", "p.lockpend"}
        THEN smu.readers
        ELSE IF q \in {"d.lock", "d.lock2", "h.failures", "h.isopen", "h.details"}
        THEN {b.writer, b.pending} \ {""}
        ELSE IF q \in {"d.lockpend", "d.lock2pend", "h.failurespend"}
        THEN b.readers
        ELSE {}

RECURSIVE C25_Reach(_, _)
C25_Reach(S, n) ==
    IF n = 0 THEN S ELSE C25_Reach(S \cup UNION {C25_Blockers(u) : u \in S}, n - 1)

C25_LockOrder ==
    /\ \A t \in LkThreads : C25_WaitsServer(t) => ~C25_HoldsBreaker(t)
    /\ \A t \in LkChatThreads :
          C25_InDo(t) => t \notin smu.readers /\ smu.writer # t /\ smu.pending # t
    /\ \A t \in LkThreads :
          t \notin C25_Reach(C25_Blockers(t), Cardinality(LkThreads))
    /\ \A t \in LkThreads :
          (thr[t].pc # "idle" /\ C25_Blockers(t) = {})
              => ENABLED (LkNext /\ thr'[t] # thr[t])

\* the health handler, holding the read lock of Server.mu, waits for a
\* breaker mutex that a chat thread holds inside Do, while the other chat
\* thread has announced its s.mu.Lock() and the memory handler waits behind
\* it
C25_Witness ==
    /\ thr["h"].pc = "h.isopen" /\ "h" \in smu.readers
    /\ bmu[thr["h"].tok].writer = "c1" /\ thr["c1"].pc = "d.record"
    /\ thr["c2"].pc = "c.lockpend" /\ smu.pending = "c2"
    /\ thr["m"].pc = "g.rlock"

(***************************************************************************)
(* C26: session persistence is not serialised per key: when two            *)
(* successful requests with the same model token and session id both load  *)
(* the stored history before either saves, the file afterwards holds what  *)
(* one of them saved and lacks the user and assistant turn of the other,   *)
(* although both were answered with 200.                                   *)
(***************************************************************************)
C26_HasPrompt(h, p) == \E i \in 1 .. Len(h) : h[i].role = "user" /\ h[i].content = p

\* request of c answered with 200 after saving its session
C26_Saved(c) ==
    /\ sess[c].pc = "responded"
    /\ sess[c].resp.status = 200
    /\ sess[c].session # <<>>

\* c and d saved under the same key and neither had loaded the other's turn
C26_BothLoadedFirst(c, d) ==
    /\ C26_Saved(c) /\ C26_Saved(d)
    /\ sess[c].sid = sess[d].sid /\ sess[c].model = sess[d].model
    /\ ~C26_HasPrompt(sess[c].session, RacePrompt(d))
    /\ ~C26_HasPrompt(sess[d].session, RacePrompt(c))

C26_LostUpdate ==
    \A c, d \in RaceClients :
        (c # d /\ C26_BothLoadedFirst(c, d)) =>
            LET h == store[<<sess[c].model, sess[c].sid>>].history
            IN  /\ h \in {sess[c].session, sess[d].session}
                /\ ~C26_HasPrompt(h, RacePrompt(c)) \/ ~C26_HasPrompt(h, RacePrompt(d))

C26_Witness ==
    /\ C26_BothLoadedFirst("c1", "c2")
    /\ sess["c1"].sid = "x"
    /\ C26_HasPrompt(store[<<"m1", "x">>].history, "p2")
    /\ ~C26_HasPrompt(store[<<"m1", "x">>].history, "p1")

(***************************************************************************)
(* C27: the session update works on a fresh load, not on the history read  *)
(* while composing: when request A has composed its messages before        *)
(* request B on the same key saved, and A loads after B's save, the        *)
(* session A builds ends with B's user and assistant turn followed by A's  *)
(* user and assistant turn, and A's save writes exactly that session.      *)
(***************************************************************************)
C27_Last4(h) == IF Len(h) >= 4 THEN SubSeq(h, Len(h) - 3, Len(h)) ELSE h

C27_LoadStep(a) == sess[a].pc = "called" /\ sess'[a].pc = "loaded"

C27_SaveStep(a) == sess[a].pc = "loaded" /\ sess'[a].pc = "responded"

C27_FreshLoad ==
    [][/\ \A a, b \in RaceClients :
            (/\ a # b
             /\ C27_LoadStep(a)
             /\ C26_Saved(b)
             /\ sess[a].sid = sess[b].sid /\ sess[a].model = sess[b].model
             /\ store[<<sess[b].model, sess[b].sid>>].history = sess[b].session
             /\ ~C26_HasPrompt(sess[a].out, RacePrompt(b)))
                => C27_Last4(sess'[a].session) =
                       << Message("user", RacePrompt(b)), Message("assistant", sess[b].text),
                          Message("user", RacePrompt(a)), Message("assistant", sess[a].text) >>
       /\ \A a \in RaceClients :
            C27_SaveStep(a) =>
                store'[<<sess[a].model, sess[a].sid>>].history = sess[a].session]_vars

\* A = c1 composed without B's turns, loaded after B = c2 saved, and saved
C27_Witness ==
    /\ C26_Saved("c1") /\ C26_Saved("c2")
    /\ sess["c1"].sid = "x" /\ sess["c2"].sid = "x"
    /\ ~C26_HasPrompt(sess["c1"].out, "p2")
    /\ Len(store[<<"m1", "x">>].history) >= 4
    /\ C27_Last4(store[<<"m1", "x">>].history) =
           << Message("user", "p2"), Message("assistant", sess["c2"].text),
              Message("user", "p1"), Message("assistant", sess["c1"].text) >>

(***************************************************************************)
(* C28: in every reachable state every timestamp t in the failure list of  *)
(* the breaker satisfies t >= now - window.                                *)
(***************************************************************************)
C28_Original ==
    \A i \in 1 .. Len(cb.failures) : cb.failures[i] >= now - cfg.Window

(***************************************************************************)
(* C29: for an entry of the Anthropic kind the upstream is called with     *)
(* x-api-key and anthropic-version and without a Bearer header, and a 2xx  *)
(* answer {content:[{text:T}]} gives the client the content T; for every   *)
(* other entry T is taken from choices[0].message.content; a 2xx body of   *)
(* neither shape ends in an Unexpected error.                              *)
(***************************************************************************)
C29_AnthropicStyle(info) == info.Endpoint = "https://api.anthropic.com/v1/messages"

C29_Original ==
    (req.pc = "responded" /\ req.reply.kind = "http") =>
        /\ C29_AnthropicStyle(req.modelInfo) =>
              /\ req.headers = {"x-api-key", "anthropic-version"}
              /\ req.reply.body = "anthropic" =>
                    req.resp.status = 200 /\ req.text = "text"
        /\ (~C29_AnthropicStyle(req.modelInfo) /\ req.reply.body = "openai") =>
              req.resp.status = 200 /\ req.text = "text"
        /\ req.reply.body = "other" => req.err.kind = ErrUnexpectedFormat
(***************************************************************************)
(* C30: Do does not hold the breaker mutex while fn executes.  A thread    *)
(* whose fn is running neither holds nor waits for the mutex of any        *)
(* breaker, and a health request that is about to read a breaker on which  *)
(* calls are in flight can take its read lock as soon as no thread outside *)
(* fn uses that mutex; so further calls on the same breaker are admitted   *)
(* and run their own fn meanwhile, and IsOpen, Failures and                *)
(* GetStateDetails (State locks like IsOpen) never wait for an upstream    *)
(* call to end.                                                            *)
(***************************************************************************)
C30_InFn(t) == thr[t].pc = "d.fn"

C30_Uses(t, m) ==
    \/ bmu[m].writer = t
    \/ bmu[m].pending = t
    \/ t \in bmu[m].readers

C30_MutexFreeDuringFn ==
    /\ \A t \in LkChatThreads :
          C30_InFn(t) => \A m \in LkTokens : ~C30_Uses(t, m)
    /\ ( /\ thr["h"].pc \in {"h.isopen", "h.details"}
         /\ \E t \in LkChatThreads : C30_InFn(t) /\ thr[t].tok = thr["h"].tok
         /\ \A u \in LkChatThreads :
               ~C30_InFn(u) => ~C30_Uses(u, thr["h"].tok) )
       => ENABLED LkHealthBreakerRLock

\* both chat threads have their fn running on the same breaker while the
\* health handler is inside Failures of that breaker, holding its mutex
C30_Witness ==
    /\ \A t \in LkChatThreads : C30_InFn(t) /\ thr[t].tok = "m1"
    /\ thr["h"].pc = "h.failures.in"
    /\ thr["h"].tok = "m1"
    /\ bmu["m1"].writer = "h"


(***************************************************************************)
(* C31: whenever the breaker moves from Closed to Open, at least threshold *)
(* recorded failures have timestamps inside the last window                *)
(* (t > now - window) at that moment.                                      *)
(***************************************************************************)
C31_Original ==
    [][(cb.state = CBStateClosed /\ cb'.state = CBStateOpen)
          => failuresInWindow(cb', cfg, now') >= cfg.Threshold]_vars


(***************************************************************************)
(* C32: no permanent lock-out.  With half_open_max >= 1, if time keeps     *)
(* advancing, admitted calls return and callers keep invoking Do, then     *)
(* again and again some Do is admitted and runs fn, whatever the earlier   *)
(* outcomes were.  The clock of the model stops at MaxTime; a behaviour in *)
(* which it stops while the breaker is Open and still waits for its        *)
(* cooldown is outside the claim's premise.                                *)
(***************************************************************************)
C32_Original ==
    (cfg.HalfOpenMax >= 1) =>
        \/ []<>(\E c \in Callers : pc[c] = "running")
        \/ <>[](cb.state = CBStateOpen /\ ~cooldownElapsed(cb, cfg, now))


(***************************************************************************)
(* C33: while the breaker is HalfOpen, the completion of a call changes    *)
(* its state only if that call was admitted as a trial of the current      *)
(* HalfOpen period; the completion of a call admitted while the breaker    *)
(* was Closed, or in an earlier HalfOpen period, leaves the state as it    *)
(* is.                                                                     *)
(***************************************************************************)
C33_Original ==
    [][\A c \in Callers :
          (Completed(c) /\ cb.state = CBStateHalfOpen /\ cb'.state # CBStateHalfOpen)
             => admIn[c] = [state |-> CBStateHalfOpen, period |-> period]]_vars


(***************************************************************************)
(* C34: RetryWithBackoff returns nil only if an invocation of its work     *)
(* closure returned nil, for every retry configuration; so a request       *)
(* answered with 200 carries the text an upstream call made for it         *)
(* returned.                                                               *)
(***************************************************************************)
C34_Original ==
    /\ (req.pc = "called" /\ req.err = NoErr) =>
          /\ req.reply.kind = "http"
          /\ CallAPI(req.run.cfg.Type, req.reply).err = NoErr
    /\ (req.pc = "responded" /\ req.resp.status = 200) =>
          /\ req.reply.kind = "http"
          /\ req.text = CallAPI(req.run.cfg.Type, req.reply).text
          /\ req.text # ""


(***************************************************************************)
(* C35: in the chat handler, in the variant with the counted retry loop    *)
(* over the legacy CircuitBreaker as in the variant built on               *)
(* RetryWithBackoff, a request one of whose upstream attempts succeeded is *)
(* answered with 200 carrying that attempt's text and its session turns    *)
(* are persisted; an error envelope is sent only when no attempt           *)
(* succeeded.                                                              *)
(***************************************************************************)
C35_Original ==
    \A c \in LgCallers :
        lreq[c].pc = "responded" =>
            /\ lreq[c].succeeded =>
                  /\ lreq[c].resp.status = 200
                  /\ lreq[c].responseText = "text"
                  /\ lreq[c].saved
            /\ lreq[c].resp.status # 200 => ~lreq[c].succeeded


(***************************************************************************)
(* C36: two requests that resolve to the same catalogue entry, one by its  *)
(* id and one by its shortcode, are gated by the same breaker: they use    *)
(* one key of Server.breakers, and no request is admitted while a breaker  *)
(* installed under a name of its entry is Open with the cooldown running.  *)
(***************************************************************************)
C36_SameEntry(t1, t2) ==
    /\ resolveModel(models, t1) # {}
    /\ resolveModel(models, t1) = resolveModel(models, t2)

C36_Original ==
    /\ [](\A c1, c2 \in MapClients :
            (chat[c1].pc \in {"retry", "upstream"} /\ chat[c2].pc \in {"retry", "upstream"}
               /\ C36_SameEntry(chat[c1].model, chat[c2].model))
            => breakerKey(chat[c1].model) = breakerKey(chat[c2].model))
    /\ [][\A c \in MapClients :
            (chat[c].pc = "retry" /\ chat'[c].pc = "upstream")
            => \A t \in MapTokens :
                  C36_SameEntry(t, chat[c].model)
                  => ~(breakers[t].state = CBStateOpen
                       /\ ~cooldownElapsed(breakers[t], ChatCBConfig, now))]_vars


(***************************************************************************)
(* C37: once the PUT requests to /api/memory have completed, with no       *)
(* WriteFile failed, memory.json holds the memory block that is in         *)
(* Server.memory (which GET returns and chat requests prepend); and a PUT  *)
(* is answered only after it has set Server.memory and written the file.   *)
(***************************************************************************)
C37_Quiet ==
    \A t \in PmThreads : put[t].method = "PUT" => put[t].pc \in {"idle", "responded"}

C37_Original ==
    /\ [](( C37_Quiet /\ puts.answered /\ ~puts.writeFailed ) => disk = memory)
    /\ [][\A t \in PmThreads :
            (put[t].method = "PUT" /\ put'[t].pc = "responded" /\ put'[t].status = 200
               /\ put[t].pc # "responded")
            => put[t].pc = "respond"]_vars


RECURSIVE C39_Pow(_, _)
C39_Pow(b, k) == IF k = 0 THEN 1 ELSE b * C39_Pow(b, k - 1)

C39_Local(i) ==
    LET e == ClassifyError(waits[i].cause)
    IN  ~(e.kind = ErrRateLimit /\ e.retryAfter > 0)

C39_Original ==
    \A i \in 1 .. Len(waits) :
        C39_Local(i) =>
            /\ waits[i].sleep <= rcfg.MaxBackoff
            /\ waits[i].sleep * C39_Pow(10, i - 1)
                 = minDuration(rcfg.InitialBackoff * C39_Pow(rcfg.BackoffFactor10, i - 1),
                               rcfg.MaxBackoff * C39_Pow(10, i - 1))

(***************************************************************************)
(* C40: the legacy CircuitBreaker has threshold 3 and timeout 5 minutes.   *)
(* Do rejects without calling fn exactly when failures >= threshold and    *)
(* the last failure is no older than timeout, and a rejection leaves       *)
(* failures and lastFail as they were.  When fn returns an error of any    *)
(* kind, failures grows by one and lastFail is the time of the return;     *)
(* when fn returns nil, failures is 0.  The mutex is held while fn runs,   *)
(* so at most one fn of the breaker executes at a time.                    *)
(***************************************************************************)
C40_MustReject ==
    /\ lcb.failures >= lcb.threshold
    /\ lcb.lastFail.valid
    /\ now - lcb.lastFail.t <= lcb.timeout

C40_InFn == {c \in LgCallers : lreq[c].pc = "fn"}

C40_LegacyBreaker ==
    /\ [](/\ lcb.threshold = 3
          /\ lcb.timeout = 5
          /\ Cardinality(C40_InFn) <= 1
          /\ \A c \in C40_InFn : lmu = c)
    /\ [][\A c \in LgCallers :
            /\ (lreq[c].pc = "lock" /\ lreq'[c].pc # "lock")
                  => /\ (lreq'[c].pc # "fn") <=> C40_MustReject
                     /\ (lreq'[c].pc # "fn")
                           => /\ lcb' = lcb
                              /\ lreq'[c].lastErr = ErrOpenRejected
            /\ (lreq[c].pc = "fn" /\ lreq'[c].pc = "after")
                  => lcb'.failures = 0 /\ lcb'.lastFail = lcb.lastFail
            /\ (lreq[c].pc = "fn" /\ lreq'[c].pc \in {"sleep", "loop"})
                  => /\ lcb'.failures = lcb.failures + 1
                     /\ lcb'.lastFail = TimeAt(now)]_vars

\* a call has been rejected at the threshold, some time after the last
\* failure and inside the timeout, while the other caller is about to call Do
C40_Witness ==
    \E c, d \in LgCallers :
        /\ c # d
        /\ lreq[c].rejected
        /\ lreq[c].lastErr = ErrOpenRejected
        /\ lcb.failures = lcb.threshold
        /\ now > lcb.lastFail.t
        /\ lreq[d].pc = "lock"

====
